---------------------------- MODULE Spec2Model ----------------------------
(***************************************************************************)
(* Model of the MUD3 byte-stream pipeline:                                 *)
(*   - server/server.js : handleTelnetNegotiation and the proxy's          *)
(*                        mudSocket 'data' handler                         *)
(*   - server/server.js : ANSIParser (parse, parseSGR, filterTelnet)       *)
(*   - client/js/mud2.js: MUD2Protocol (parse, parseClientCode,            *)
(*                        interpretClientCode, parseFESLine, setMode,      *)
(*                        parseVisibleStats, getNAWS, getTerminalType)     *)
(* Byte buffers are sequences of numbers in 0..255.  JavaScript indexes    *)
(* from 0, TLA+ sequences from 1: a JavaScript index k is the index k+1    *)
(* here, so the guard "i + 2 < data.length" reads "i + 2 <= Len(data)".    *)
(***************************************************************************)
EXTENDS Integers, Sequences, FiniteSets, TLC

VARIABLES
    negData,      \* the chunk last handed to handleTelnetNegotiation
    responses,    \* the reply buffer it returned
    negCalls,     \* how many chunks the negotiator has answered
    negPc,        \* "recv": negData awaits its call; "replied": it returned
    negTail,      \* the last two bytes of the chunk answered before negData
    negOpen,      \* the chunk answered before negData held an IAC SB with
                  \*         no IAC SE after it
    connected,    \* proxy: the session's connected flag
    mudState,     \* proxy: the MUD socket: "connecting", "established", "closed"
    wsReady,      \* proxy: ws.readyState: "OPEN", "CLOSING", "CLOSED"
    mudLog,       \* proxy: the calls made on the two sockets, in program order
    received,     \* proxy: the chunks mudSocket 'data' delivered, in order,
                  \*        each with ws.readyState at that moment
    wsIn,         \* proxy: the messages ws 'message' delivered, in order,
                  \*        each with the state of the MUD socket at that moment
    mode,         \* MUD2Protocol.mode
    stats,        \* MUD2Protocol.stats
    pData,        \* the bytes last handed to MUD2Protocol.parse
    cleanData,    \* the cleanData it returned
    commands,     \* the commands it returned
    notified,     \* the stats passed to onStatsUpdate during that call
    modeEvents,   \* the modes passed to onModeChange during that call
    prevMode,     \* mode when that call started
    prevStats,    \* stats when that call started
    protoCalls,   \* how many parse calls the session has made
    protoPc,      \* "recv": pData awaits its call; "parsed": parse returned
    recOpen,      \* the message parsed before pData ended inside a stats
                  \*         record: no CR or LF after its header
    vText,        \* the text last handed to MUD2Protocol.parseVisibleStats
    vReturn,      \* what it returned
    visCalls,     \* how many parseVisibleStats calls the session has made
    visPc,        \* "recv": vText awaits its call; "done": the call returned
    foreground,   \* ANSIParser.foreground
    background,   \* ANSIParser.background
    bold,         \* ANSIParser.bold
    reverse,      \* ANSIParser.reverse
    prevAttrs,    \* the four attributes when the last ANSIParser call started
    sgrParams,    \* the string last handed to ANSIParser.parseSGR
    aSource,      \* where aData comes from: the MUD, or a reply generator
    aData,        \* the bytes last handed to ANSIParser.parse
    filtered,     \* what filterTelnet made of them
    segments,     \* the segments parse returned
    ansiCalls,    \* how many calls the ANSIParser has served
    ansiPc,       \* "recv": aData awaits parse; "sgr": sgrParams awaits
                  \* parseSGR; "done": the call returned
    socks,        \* client: the state of each WebSocket it has made: "free",
                  \*         "CONNECTING", "OPEN", "CLOSING", "ABORTING" (closed
                  \*         by the client before it opened), "CLOSED"
    cur,          \* client: the slot of this.ws, 0 for null
    cConnected,   \* client: this.connected
    reconnectTimer, \* client: this.reconnectTimer is set
    timers,       \* client: how many reconnect timeouts are pending
    cEvent,       \* client: the handler that ran last
    cLog,         \* client: the calls onMessage made for the last binary
                  \*         message, in program order
    cSent,        \* client: what the last handler sent on this.ws
    lost          \* client: an established connection was lost, not by the
                  \*         user, and no new attempt has been started since

negVars   == <<negData, responses, negCalls, negPc, negTail, negOpen>>
proxyVars == <<connected, mudState, wsReady, mudLog, received, wsIn>>
protoVars == <<mode, stats, pData, cleanData, commands, notified, modeEvents,
               prevMode, prevStats, protoCalls, protoPc, recOpen>>
visVars   == <<vText, vReturn, visCalls, visPc>>
ansiVars  == <<foreground, background, bold, reverse, prevAttrs, sgrParams,
               aSource, aData, filtered, segments, ansiCalls, ansiPc>>
clientVars == <<socks, cur, cConnected, reconnectTimer, timers, cEvent, cLog,
                cSent, lost>>
vars      == <<negVars, proxyVars, protoVars, visVars, ansiVars, clientVars>>

-----------------------------------------------------------------------------
(* Telnet constants, server.js:38-40 *)
IAC == 255
DO == 253
DONT == 254
WILL == 251
WONT == 252
SB == 250
SE == 240
ECHO == 1
SUPPRESS_GA == 3
TERMINAL_TYPE == 24
NAWS == 31

(* Sequence helpers *)
RECURSIVE Flatten(_)
Flatten(ss) == IF ss = <<>> THEN <<>> ELSE Head(ss) \o Flatten(Tail(ss))

RECURSIVE SeqsUpTo(_, _)
\* every concatenation of at most n fragments of lib
SeqsUpTo(lib, n) ==
    IF n = 0 THEN {<<>>}
    ELSE LET shorter == SeqsUpTo(lib, n - 1)
         IN  shorter \cup {s \o f : s \in shorter, f \in lib}

-----------------------------------------------------------------------------
(* handleTelnetNegotiation, server.js:45-123 *)

\* switch (opt) under cmd === DO, server.js:55-73
DoReplyEchoAccepted(opt) ==
    IF opt = TERMINAL_TYPE THEN <<IAC, WILL, TERMINAL_TYPE>>
    ELSE IF opt = NAWS THEN <<IAC, WILL, NAWS>> \o <<IAC, SB, NAWS, 0, 80, 0, 24, IAC, SE>>
    ELSE IF opt = ECHO THEN <<IAC, WILL, ECHO>>
    ELSE <<IAC, WONT, opt>>

DoReply(opt) ==
    IF opt = TERMINAL_TYPE THEN <<IAC, WILL, TERMINAL_TYPE>>
    ELSE IF opt = NAWS THEN <<IAC, WILL, NAWS>> \o <<IAC, SB, NAWS, 0, 80, 0, 24, IAC, SE>>
    ELSE IF opt = ECHO THEN <<IAC, WONT, ECHO>>
    ELSE <<IAC, WONT, opt>>

\* switch (opt) under cmd === WILL, server.js:79-91
WillReply(opt) ==
    IF opt = SUPPRESS_GA THEN <<IAC, DO, SUPPRESS_GA>>
    ELSE IF opt = ECHO THEN <<IAC, DO, ECHO>>
    ELSE <<IAC, DONT, opt>>

\* the "Find SE" loop, server.js:99-105: the value of j when it ends
RECURSIVE FindSE(_, _)
FindSE(data, j) ==
    IF j < Len(data)
    THEN IF data[j] = IAC /\ data[j + 1] = SE THEN j ELSE FindSE(data, j + 1)
    ELSE j

\* the terminal-type answer, server.js:108-113
SubReplyAnyOption(data, i, opt) ==
    IF i + 3 <= Len(data) /\ data[i + 3] = 1
    THEN <<IAC, SB, TERMINAL_TYPE, 0>> \o <<97, 110, 115, 105>> \o <<IAC, SE>>
    ELSE <<>>

SubReply(data, i, opt) ==
    IF opt = TERMINAL_TYPE /\ i + 3 <= Len(data) /\ data[i + 3] = 1
    THEN <<IAC, SB, TERMINAL_TYPE, 0>> \o <<97, 110, 115, 105>> \o <<IAC, SE>>
    ELSE <<>>

SubNextResumesWhenOpen(data, i) ==
    LET j == FindSE(data, i + 3)
    IN  IF j < Len(data) /\ data[j] = IAC /\ data[j + 1] = SE
        THEN j + 2 ELSE i + 3

\* where scanning resumes after a subnegotiation, server.js:115
SubNext(data, i) == FindSE(data, i + 3) + 2

\* one pass of the while loop with the index at i, server.js:49-120:
\* the bytes pushed on responses and the next value of i
NegIter(data, i) ==
    IF data[i] = IAC /\ i + 2 <= Len(data)
    THEN LET cmd == data[i + 1]
             opt == data[i + 2]
         IN  IF cmd = DO THEN [next |-> i + 3, push |-> DoReply(opt)]
             ELSE IF cmd = WILL THEN [next |-> i + 3, push |-> WillReply(opt)]
             ELSE IF cmd = SB
                  THEN [next |-> SubNext(data, i), push |-> SubReply(data, i, opt)]
             ELSE [next |-> i + 1, push |-> <<>>]
    ELSE [next |-> i + 1, push |-> <<>>]

\* the passes of the loop from index i on, in order: each with its index
RECURSIVE NegTrace(_, _)
NegTrace(data, i) ==
    IF i > Len(data) THEN <<>>
    ELSE LET it == NegIter(data, i)
         IN  <<[at |-> i, push |-> it.push]>> \o NegTrace(data, it.next)

handleTelnetNegotiation(data) ==
    LET tr == NegTrace(data, 1)
    IN  Flatten([k \in 1..Len(tr) |-> tr[k].push])

-----------------------------------------------------------------------------
(* Inputs of the negotiator: chunks built from at most MaxNegFrags fragments *)
MaxNegFrags == 4
MaxNegCalls == 2

NegFrags ==
    { <<IAC>>, <<ECHO>>, <<SUPPRESS_GA>>, <<TERMINAL_TYPE>>, <<NAWS>>, <<65>>,
      <<IAC, DO>>, <<IAC, WILL>>, <<IAC, SB>>, <<IAC, SE>>,
      <<IAC, SB, TERMINAL_TYPE, 1>> }

NegChunks == SeqsUpTo(NegFrags, MaxNegFrags)

\* the chunks that may follow an answered chunk
NegLaterChunks ==
    { <<TERMINAL_TYPE>>, <<IAC, SE>>, <<IAC, DO, TERMINAL_TYPE>>,
      <<IAC, DO, ECHO, IAC, WILL, ECHO>>, <<IAC, WILL, SUPPRESS_GA, IAC>>,
      <<IAC, SB, TERMINAL_TYPE, 1, IAC, SE, IAC, DO, NAWS>>,
      <<65, IAC, SE, IAC, DO, ECHO>> }


-----------------------------------------------------------------------------
(* MUD2Protocol, mud2.js:6-465.  A session is the object's mutable state    *)
(* together with what its callbacks were handed: mode, stats, the stats     *)
(* passed to onStatsUpdate and the modes passed to onModeChange.            *)

Session(m, st) == [mode |-> m, stats |-> st, notified |-> <<>>, modeEvents |-> <<>>]

\* setMode, mud2.js:404-411
setMode(S, m) ==
    IF S.mode # m
    THEN [S EXCEPT !.mode = m, !.modeEvents = Append(@, m)]
    ELSE S

\* \d of a JavaScript regular expression
IsDigit(b) == b \in 48..57

\* \s of a JavaScript regular expression and String.prototype.trim, for
\* character codes below 256
IsSpace(b) == b \in {9, 10, 11, 12, 13, 32, 160}

RECURSIVE DigitRunEnd(_, _)
DigitRunEnd(text, k) ==
    IF k + 1 <= Len(text) /\ IsDigit(text[k + 1]) THEN DigitRunEnd(text, k + 1)
    ELSE k

\* text.match(/\d+/g), mud2.js:307: the digit runs from index k on (<<>> for null)
RECURSIVE MatchNumbers(_, _)
MatchNumbers(text, k) ==
    IF k > Len(text) THEN <<>>
    ELSE IF ~IsDigit(text[k]) THEN MatchNumbers(text, k + 1)
    ELSE LET e == DigitRunEnd(text, k)
         IN  <<SubSeq(text, k, e)>> \o MatchNumbers(text, e + 1)

\* parseInt of a digit run (the values stay far below 2^53)
RECURSIVE parseInt(_)
parseInt(digits) ==
    IF digits = <<>> THEN 0
    ELSE parseInt(SubSeq(digits, 1, Len(digits) - 1)) * 10
         + (digits[Len(digits)] - 48)

\* text.match(/[YN]/g), mud2.js:321
MatchFlags(text) == SelectSeq(text, LAMBDA b : b \in {89, 78})

toUpperCase(b) == IF b \in 97..122 THEN b - 32 ELSE b

\* text.match(/[SRCFTB]\s*$/i), mud2.js:330-332: the matched letter,
\* trimmed and upper-cased, or 0 when there is no match
MatchWeather(text) ==
    LET solid == {k \in 1..Len(text) : ~IsSpace(text[k])}
        last  == CHOOSE k \in solid : \A j \in solid : j <= k
    IN  IF solid # {} /\ toUpperCase(text[last]) \in {83, 82, 67, 70, 84, 66}
        THEN toUpperCase(text[last])
        ELSE 0

\* weatherMap, mud2.js:333-336
weatherMap(w) ==
    CASE w = 83 -> "sunny"  [] w = 82 -> "raining" [] w = 67 -> "cloudy"
      [] w = 70 -> "foggy"  [] w = 84 -> "stormy"  [] w = 66 -> "snowing"

\* parseInt(numbers[k]) || 0, mud2.js:310-318; numbers[k] past the end of the
\* array is undefined, which parseInt turns into NaN and || into 0
NumberAt(numbers, k) == IF k <= Len(numbers) THEN parseInt(numbers[k]) ELSE 0

\* the assignments of parseFESLine to the nine numbers, mud2.js:310-318
SetNumbersSwapped(st, numbers) ==
    [st EXCEPT !.stamina = NumberAt(numbers, 1),
               !.maxStamina = NumberAt(numbers, 2),
               !.dexterity = NumberAt(numbers, 3),
               !.maxDexterity = NumberAt(numbers, 4),
               !.strength = NumberAt(numbers, 5),
               !.maxStrength = NumberAt(numbers, 6),
               !.magic = NumberAt(numbers, 7),
               !.maxMagic = NumberAt(numbers, 8),
               !.score = NumberAt(numbers, 9)]

SetNumbers(st, numbers) ==
    [st EXCEPT !.stamina = NumberAt(numbers, 1),
               !.maxStamina = NumberAt(numbers, 2),
               !.strength = NumberAt(numbers, 3),
               !.maxStrength = NumberAt(numbers, 4),
               !.dexterity = NumberAt(numbers, 5),
               !.maxDexterity = NumberAt(numbers, 6),
               !.magic = NumberAt(numbers, 7),
               !.maxMagic = NumberAt(numbers, 8),
               !.score = NumberAt(numbers, 9)]

\* the flags of parseFESLine, mud2.js:321-327
SetFlags(st, flags) ==
    [st EXCEPT !.blind    = IF Len(flags) > 0 THEN flags[1] = 89 ELSE @,
               !.deaf     = IF Len(flags) > 1 THEN flags[2] = 89 ELSE @,
               !.crippled = IF Len(flags) > 2 THEN flags[3] = 89 ELSE @,
               !.dumb     = IF Len(flags) > 3 THEN flags[4] = 89 ELSE @]

\* the weather of parseFESLine, mud2.js:330-338
SetWeather(st, text) ==
    IF MatchWeather(text) # 0
    THEN [st EXCEPT !.weather = weatherMap(MatchWeather(text))]
    ELSE st

\* the test that admits a record, mud2.js:309
AcceptsEightNumbers(numbers) == Len(numbers) >= 8

Accepts(numbers) == Len(numbers) >= 9

\* parseFESLine, mud2.js:304-349
parseFESLinePartial(S, text) ==
    LET numbers == MatchNumbers(text, 1)
        flagged == [S EXCEPT !.stats = SetWeather(SetFlags(S.stats, MatchFlags(text)), text)]
    IN  IF Accepts(numbers)
        THEN LET st == SetWeather(SetFlags(SetNumbers(S.stats, numbers),
                                           MatchFlags(text)), text)
                 T  == setMode([S EXCEPT !.stats = st], "GAME")
             IN  [T EXCEPT !.notified = Append(@, st)]
        ELSE flagged

parseFESLine(S, text) ==
    LET numbers == MatchNumbers(text, 1)
    IN  IF Accepts(numbers)
        THEN LET st == SetWeather(SetFlags(SetNumbers(S.stats, numbers),
                                           MatchFlags(text)), text)
                 T  == setMode([S EXCEPT !.stats = st], "GAME")
             IN  [T EXCEPT !.notified = Append(@, st)]
        ELSE S

\* the loop that collects fesData from index j on, mud2.js:81-90: the text and
\* the index at which the loop ends
RECURSIVE CollectFESPastNewline(_, _, _)
CollectFESPastNewline(data, j, fesData) ==
    IF j <= Len(data) /\ data[j] # 10 /\ data[j] # 13
    THEN IF data[j] >= 155 /\ data[j] <= 255
         THEN CollectFESPastNewline(data, j + 1, fesData)
         ELSE CollectFESPastNewline(data, j + 1, Append(fesData, data[j]))
    ELSE [text |-> fesData, next |-> IF j <= Len(data) THEN j + 1 ELSE j]

RECURSIVE CollectFES(_, _, _)
CollectFES(data, j, fesData) ==
    IF j <= Len(data) /\ data[j] # 10 /\ data[j] # 13
    THEN IF data[j] >= 155 /\ data[j] <= 255
         THEN CollectFES(data, j + 1, fesData)
         ELSE CollectFES(data, j + 1, Append(fesData, data[j]))
    ELSE [text |-> fesData, next |-> j]

\* fesData.trim() is not empty, mud2.js:93
HasTrimmedText(text) == \E k \in 1..Len(text) : ~IsSpace(text[k])

NoCommand == [type |-> "null"]

\* the branch for a first byte of 157, mud2.js:195-201
GameMarkerAnySecondByte(S, seq) ==
    [session |-> setMode(S, "GAME"),
     command |-> [type |-> "color", fg |-> "lightgreen"]]

GameMarker(S, seq) ==
    IF Len(seq) > 1 /\ seq[2] = 156
    THEN [session |-> setMode(S, "GAME"),
          command |-> [type |-> "color", fg |-> "lightgreen"]]
    ELSE [session |-> S, command |-> [type |-> "color", fg |-> "green"]]

\* interpretClientCode, mud2.js:179-267: the command and the session after
interpretClientCode(S, seq) ==
    LET first == seq[1]
        same(c) == [session |-> S, command |-> c]
    IN  IF Len(seq) < 2 THEN same(NoCommand)
        ELSE IF first = 155 THEN same([type |-> "promptStart"])
        ELSE IF first = 156 THEN same([type |-> "color", fg |-> "blue"])
        ELSE IF first = 157 THEN GameMarker(S, seq)
        ELSE IF first = 158 THEN same([type |-> "color", fg |-> "cyan"])
        ELSE IF first = 159 THEN same([type |-> "color", fg |-> "magenta"])
        ELSE IF first = 160 THEN same([type |-> "color", fg |-> "red"])
        ELSE IF first = 161 THEN same([type |-> "magic", fg |-> "lightblue"])
        ELSE IF first = 162 THEN same([type |-> "combat", fg |-> "red"])
        ELSE IF first = 163 THEN same([type |-> "event", fg |-> "red"])
        ELSE IF first = 164 THEN same([type |-> "color", fg |-> "yellow"])
        ELSE IF first = 167 /\ Len(seq) > 2
             THEN IF seq[2] = 163 /\ seq[3] = 156
                  THEN same([type |-> "fesStart"])
                  ELSE same([type |-> "color", fg |-> "white"])
        ELSE IF first = 170
             THEN same([type |-> "dreamword", fg |-> "black", bg |-> "cyan"])
        ELSE IF first = 250 THEN same([type |-> "clientModeStart"])
        ELSE IF first = 254 /\ Len(seq) >= 3
             THEN same([type |-> "colorDirect", fg |-> seq[2] - 155, bg |-> seq[3] - 155])
        ELSE same([type |-> "unknown", code |-> first])

\* the terminator search of parseClientCode, mud2.js:156-160: the value of
\* end when the loop is left
RECURSIVE FindTerminator(_, _, _)
FindTerminator(data, start, end) ==
    IF end <= Len(data) /\ data[end] # 255
    THEN IF (end + 1) - start > 20 THEN end + 1
         ELSE FindTerminator(data, start, end + 1)
    ELSE end

parseClientCodeKeepsTerminator(S, data, start) ==
    LET end == FindTerminator(data, start, start + 1)
    IN  IF end > Len(data) \/ data[end] # 255
        THEN [found |-> FALSE, session |-> S, command |-> NoCommand, nextIndex |-> start]
        ELSE LET r == interpretClientCode(S, SubSeq(data, start, end))
             IN  [found |-> TRUE, session |-> r.session, command |-> r.command,
                  nextIndex |-> end]

\* parseClientCode, mud2.js:152-174: found is FALSE for the null result
parseClientCode(S, data, start) ==
    LET end == FindTerminator(data, start, start + 1)
    IN  IF end > Len(data) \/ data[end] # 255
        THEN [found |-> FALSE, session |-> S, command |-> NoCommand, nextIndex |-> start]
        ELSE LET r == interpretClientCode(S, SubSeq(data, start, end))
             IN  [found |-> TRUE, session |-> r.session, command |-> r.command,
                  nextIndex |-> end + 1]

\* the ESC - codes that parse consumes, mud2.js:115-136
EscDashCommandReverseSwapped(code) ==
    CASE code = 67 -> [type |-> "clear"]
      [] code = 82 -> [type |-> "reverse", value |-> FALSE]
      [] code = 114 -> [type |-> "reverse", value |-> TRUE]
      [] code = 75 -> [type |-> "clearLine"]
      [] code = 84 -> NoCommand

EscDashCommand(code) ==
    CASE code = 67 -> [type |-> "clear"]
      [] code = 82 -> [type |-> "reverse", value |-> TRUE]
      [] code = 114 -> [type |-> "reverse", value |-> FALSE]
      [] code = 75 -> [type |-> "clearLine"]
      [] code = 84 -> NoCommand

ParseIterRecordCommand(L, data) ==
    LET i == L.i
        byte == data[i]
        step(kind, text, next, S, clean, cmds) ==
            [i |-> next, session |-> S, cleanBytes |-> clean, commands |-> cmds,
             kind |-> kind, text |-> text]
        pushed(c) == IF c = NoCommand THEN L.commands ELSE Append(L.commands, c)
        code == parseClientCode(L.session, data, i)
    IN  IF /\ byte = 167 /\ i + 3 <= Len(data)
           /\ data[i + 1] = 163 /\ data[i + 2] = 156 /\ data[i + 3] = 255
        THEN LET fes == CollectFES(data, i + 4, <<>>)
             IN  step("fes", fes.text, fes.next,
                      IF HasTrimmedText(fes.text)
                      THEN parseFESLine(L.session, fes.text) ELSE L.session,
                      L.cleanBytes, Append(L.commands, [type |-> "fesStart"]))
        ELSE IF byte >= 155 /\ byte <= 254 /\ code.found
        THEN step("code", <<>>, code.nextIndex, code.session,
                  L.cleanBytes, pushed(code.command))
        ELSE IF /\ byte = 27 /\ i + 2 <= Len(data) /\ data[i + 1] = 45
                /\ data[i + 2] \in {67, 82, 114, 75, 84}
        THEN step("esc", <<>>, i + 3,
                  IF data[i + 2] = 67 THEN setMode(L.session, "CLIENT") ELSE L.session,
                  L.cleanBytes, pushed(EscDashCommand(data[i + 2])))
        ELSE step("byte", <<>>, i + 1, L.session, Append(L.cleanBytes, byte), L.commands)

\* one pass of the while loop of parse, mud2.js:70-141.  L holds the local
\* variables i, cleanBytes and commands and the session; kind and text record
\* which branch ran ("fes", "code", "esc", "byte") and the fesData collected
ParseIter(L, data) ==
    LET i == L.i
        byte == data[i]
        step(kind, text, next, S, clean, cmds) ==
            [i |-> next, session |-> S, cleanBytes |-> clean, commands |-> cmds,
             kind |-> kind, text |-> text]
        pushed(c) == IF c = NoCommand THEN L.commands ELSE Append(L.commands, c)
        code == parseClientCode(L.session, data, i)
    IN  IF /\ byte = 167 /\ i + 3 <= Len(data)
           /\ data[i + 1] = 163 /\ data[i + 2] = 156 /\ data[i + 3] = 255
        THEN LET fes == CollectFES(data, i + 4, <<>>)
             IN  step("fes", fes.text, fes.next,
                      IF HasTrimmedText(fes.text)
                      THEN parseFESLine(L.session, fes.text) ELSE L.session,
                      L.cleanBytes, L.commands)
        ELSE IF byte >= 155 /\ byte <= 254 /\ code.found
        THEN step("code", <<>>, code.nextIndex, code.session,
                  L.cleanBytes, pushed(code.command))
        ELSE IF /\ byte = 27 /\ i + 2 <= Len(data) /\ data[i + 1] = 45
                /\ data[i + 2] \in {67, 82, 114, 75, 84}
        THEN step("esc", <<>>, i + 3,
                  IF data[i + 2] = 67 THEN setMode(L.session, "CLIENT") ELSE L.session,
                  L.cleanBytes, pushed(EscDashCommand(data[i + 2])))
        ELSE step("byte", <<>>, i + 1, L.session, Append(L.cleanBytes, byte), L.commands)

\* the passes of the loop in order, each with the index it started at and
\* the local variables and session it left
RECURSIVE ParseTrace(_, _)
ParseTrace(L, data) ==
    IF L.i > Len(data) THEN <<>>
    ELSE LET N == ParseIter(L, data)
         IN  <<[at |-> L.i, after |-> N]>> \o ParseTrace(N, data)

ParseStart(S) ==
    [i |-> 1, session |-> S, cleanBytes |-> <<>>, commands |-> <<>>,
     kind |-> "start", text |-> <<>>]

\* parse, mud2.js:65-147: the local variables and the session when the loop ends
parse(S, data) ==
    LET tr == ParseTrace(ParseStart(S), data)
    IN  IF tr = <<>> THEN ParseStart(S) ELSE tr[Len(tr)].after

-----------------------------------------------------------------------------
(* MUD2Protocol.parseVisibleStats, mud2.js:355-399.  The text is a sequence *)
(* of character codes below 256, as bytesToString makes it.                 *)

toLowerCase(b) == IF b \in 65..90 THEN b + 32 ELSE b

\* the literal letters of a pattern under the i flag, at index p of text
LiteralAt(text, p, word) ==
    /\ p + Len(word) - 1 <= Len(text)
    /\ \A k \in 1..Len(word) : toLowerCase(text[p + k - 1]) = word[k]

\* [:\s]* from index q on: the index after the run
RECURSIVE SkipSeparators(_, _)
SkipSeparators(text, q) ==
    IF q <= Len(text) /\ (text[q] = 58 \/ IsSpace(text[q]))
    THEN SkipSeparators(text, q + 1)
    ELSE q

NoMatch == [found |-> FALSE]

\* /word[:\s]*(\d+)[\/](\d+)/i tried at index p, mud2.js:357-359
PairAt(text, p, word) ==
    IF ~LiteralAt(text, p, word) THEN NoMatch
    ELSE LET q == SkipSeparators(text, p + Len(word))
         IN  IF q > Len(text) \/ ~IsDigit(text[q]) THEN NoMatch
             ELSE LET e == DigitRunEnd(text, q)
                  IN  IF \/ e + 2 > Len(text) \/ text[e + 1] # 47
                         \/ ~IsDigit(text[e + 2])
                      THEN NoMatch
                      ELSE [found |-> TRUE, first |-> SubSeq(text, q, e),
                            second |-> SubSeq(text, e + 2, DigitRunEnd(text, e + 2))]

\* text.match of such a pattern: the leftmost match from index p on
RECURSIVE SearchPair(_, _, _)
SearchPair(text, p, word) ==
    IF p > Len(text) THEN NoMatch
    ELSE IF PairAt(text, p, word).found THEN PairAt(text, p, word)
    ELSE SearchPair(text, p + 1, word)

\* /word[:\s]*(\d+)/i tried at index p, mud2.js:360-361
OneAt(text, p, word) ==
    IF ~LiteralAt(text, p, word) THEN NoMatch
    ELSE LET q == SkipSeparators(text, p + Len(word))
         IN  IF q > Len(text) \/ ~IsDigit(text[q]) THEN NoMatch
             ELSE [found |-> TRUE, first |-> SubSeq(text, q, DigitRunEnd(text, q))]

RECURSIVE SearchOne(_, _, _)
SearchOne(text, p, word) ==
    IF p > Len(text) THEN NoMatch
    ELSE IF OneAt(text, p, word).found THEN OneAt(text, p, word)
    ELSE SearchOne(text, p + 1, word)

\* the alternatives of the weather pattern in their order, mud2.js:362
WeatherWords ==
    << [word |-> <<115, 117, 110, 110, 121>>, name |-> "sunny"],
       [word |-> <<99, 108, 111, 117, 100, 121>>, name |-> "cloudy"],
       [word |-> <<114, 97, 105, 110, 105, 110, 103>>, name |-> "raining"],
       [word |-> <<115, 110, 111, 119, 105, 110, 103>>, name |-> "snowing"],
       [word |-> <<102, 111, 103, 103, 121>>, name |-> "foggy"],
       [word |-> <<115, 116, 111, 114, 109, 121>>, name |-> "stormy"] >>

\* /(sunny|cloudy|raining|snowing|foggy|stormy)/i: the leftmost match from
\* index p on, lower-cased as mud2.js:391 does
RECURSIVE SearchWeather(_, _)
SearchWeather(text, p) ==
    IF p > Len(text) THEN NoMatch
    ELSE LET hits == {n \in 1..Len(WeatherWords) :
                         LiteralAt(text, p, WeatherWords[n].word)}
         IN  IF hits # {}
             THEN [found |-> TRUE,
                   name |-> WeatherWords[CHOOSE n \in hits : \A m \in hits : n <= m].name]
             ELSE SearchWeather(text, p + 1)

\* the update for magMatch, mud2.js:381-384
VisibleMagicSetsMax(st, m) ==
    IF m.found
    THEN [st EXCEPT !.magic = parseInt(m.first), !.maxMagic = parseInt(m.first)]
    ELSE st

VisibleMagic(st, m) ==
    IF m.found THEN [st EXCEPT !.magic = parseInt(m.first)] ELSE st

\* parseVisibleStats, mud2.js:355-399: the session it leaves and its result
parseVisibleStats(S, text) ==
    LET staMatch == SearchPair(text, 1, <<115, 116, 97>>)
        dexMatch == SearchPair(text, 1, <<100, 101, 120>>)
        strMatch == SearchPair(text, 1, <<115, 116, 114>>)
        magMatch == SearchOne(text, 1, <<109, 97, 103>>)
        ptsMatch == SearchOne(text, 1, <<112, 116, 115>>)
        weatherMatch == SearchWeather(text, 1)
        s1 == IF staMatch.found
              THEN [S.stats EXCEPT !.stamina = parseInt(staMatch.first),
                                   !.maxStamina = parseInt(staMatch.second)]
              ELSE S.stats
        s2 == IF dexMatch.found
              THEN [s1 EXCEPT !.dexterity = parseInt(dexMatch.first),
                              !.maxDexterity = parseInt(dexMatch.second)]
              ELSE s1
        s3 == IF strMatch.found
              THEN [s2 EXCEPT !.strength = parseInt(strMatch.first),
                              !.maxStrength = parseInt(strMatch.second)]
              ELSE s2
        s4 == VisibleMagic(s3, magMatch)
        s5 == IF ptsMatch.found THEN [s4 EXCEPT !.score = parseInt(ptsMatch.first)]
              ELSE s4
        s6 == IF weatherMatch.found THEN [s5 EXCEPT !.weather = weatherMatch.name]
              ELSE s5
        updated == \/ staMatch.found \/ dexMatch.found \/ strMatch.found
                   \/ magMatch.found \/ ptsMatch.found \/ weatherMatch.found
    IN  [session |-> IF updated
                     THEN [S EXCEPT !.stats = s6, !.notified = Append(@, s6)]
                     ELSE S,
         updated |-> updated]

-----------------------------------------------------------------------------
(* ANSIParser, server.js:446-796.  A string is the sequence of its          *)
(* character codes.  The attributes are the record                          *)
(* [foreground, background, bold, reverse].                                 *)

\* reset, server.js:472-477
DefaultAttrs == [foreground |-> 7, background |-> 0, bold |-> FALSE, reverse |-> FALSE]

\* bytesToString, server.js:784-790: one character per byte, String.fromCharCode
bytesToString(bytes) == [k \in 1..Len(bytes) |-> bytes[k] % 65536]

\* the search for IAC SE inside filterTelnet, server.js:749-757: the value of
\* j when the loop is left
RECURSIVE FilterFindSE(_, _)
FilterFindSE(str, j) ==
    IF j < Len(str)
    THEN IF str[j] = 255 /\ str[j + 1] = 240 THEN j + 2
         ELSE FilterFindSE(str, j + 1)
    ELSE j

\* how far filterTelnet steps over IAC DO/DONT/WILL/WONT, server.js:742-745
SkipNegotiationTwoBytes(i) == i + 2

SkipNegotiation(i) == i + 3

\* one pass of the while loop of filterTelnet, server.js:726-775: F holds i
\* and result
FilterIter(F, str) ==
    LET i == F.i
        charCode == str[i]
    IN  IF charCode = 255
        THEN IF i + 1 <= Len(str)
             THEN LET cmd == str[i + 1]
                  IN  IF cmd = 255
                      THEN [i |-> i + 2, result |-> Append(F.result, str[i])]
                      ELSE IF cmd >= 251 /\ cmd <= 254
                      THEN [F EXCEPT !.i = SkipNegotiation(i)]
                      ELSE IF cmd = 250
                      THEN [F EXCEPT !.i = FilterFindSE(str, i + 2)]
                      ELSE IF cmd >= 240 /\ cmd <= 249
                      THEN [F EXCEPT !.i = i + 2]
                      ELSE [F EXCEPT !.i = i + 1]
             ELSE [F EXCEPT !.i = i + 1]
        ELSE [i |-> i + 1, result |-> Append(F.result, str[i])]

\* the passes of the loop in order, each with the index it started at and
\* the variables it left
RECURSIVE FilterTrace(_, _)
FilterTrace(F, str) ==
    IF F.i > Len(str) THEN <<>>
    ELSE LET N == FilterIter(F, str)
         IN  <<[at |-> F.i, after |-> N]>> \o FilterTrace(N, str)

FilterStart == [i |-> 1, result |-> <<>>]

\* filterTelnet, server.js:722-779
filterTelnet(str) ==
    LET tr == FilterTrace(FilterStart, str)
    IN  IF tr = <<>> THEN <<>> ELSE tr[Len(tr)].after.result

\* params.split(';'), server.js:509
RECURSIVE Split(_)
Split(params) ==
    LET seps == {k \in 1..Len(params) : params[k] = 59}
    IN  IF seps = {} THEN <<params>>
        ELSE LET k == CHOOSE x \in seps : \A y \in seps : x <= y
             IN  <<SubSeq(params, 1, k - 1)>>
                    \o Split(SubSeq(params, k + 1, Len(params)))

NaN == [nan |-> TRUE]

\* the white space parseInt skips, for character codes below 256
RECURSIVE SkipWhiteSpace(_, _)
SkipWhiteSpace(item, k) ==
    IF k <= Len(item) /\ IsSpace(item[k]) THEN SkipWhiteSpace(item, k + 1) ELSE k

\* parseInt(n, 10), server.js:509: white space, an optional sign, and the
\* longest run of digits; NaN when there is no digit there
parseInt10(item) ==
    LET a == SkipWhiteSpace(item, 1)
        signed == a <= Len(item) /\ item[a] \in {43, 45}
        d == IF signed THEN a + 1 ELSE a
    IN  IF d > Len(item) \/ ~IsDigit(item[d]) THEN NaN
        ELSE [nan |-> FALSE,
              value |-> (IF signed /\ item[a] = 45 THEN -1 ELSE 1)
                           * parseInt(SubSeq(item, d, DigitRunEnd(item, d)))]

\* the switch of parseSGR for one code, server.js:514-558
ApplyCodeBoldKeepsColor(a, code) ==
    CASE code = 0 -> [a EXCEPT !.bold = FALSE, !.reverse = FALSE]
      [] code = 1 -> [a EXCEPT !.bold = TRUE]
      [] code = 7 -> [a EXCEPT !.reverse = TRUE]
      [] code = 22 -> [a EXCEPT !.bold = FALSE]
      [] code = 27 -> [a EXCEPT !.reverse = FALSE]
      [] code \in 30..37 -> [a EXCEPT !.foreground = code - 30]
      [] code = 39 -> [a EXCEPT !.foreground = 7]
      [] code \in 40..47 -> [a EXCEPT !.background = code - 40]
      [] code = 49 -> [a EXCEPT !.background = 0]
      [] code \in 90..97 -> [a EXCEPT !.foreground = code - 82]
      [] OTHER -> a

ApplyCode(a, code) ==
    CASE code = 0 -> DefaultAttrs
      [] code = 1 -> [a EXCEPT !.bold = TRUE]
      [] code = 7 -> [a EXCEPT !.reverse = TRUE]
      [] code = 22 -> [a EXCEPT !.bold = FALSE]
      [] code = 27 -> [a EXCEPT !.reverse = FALSE]
      [] code \in 30..37 -> [a EXCEPT !.foreground = code - 30]
      [] code = 39 -> [a EXCEPT !.foreground = 7]
      [] code \in 40..47 -> [a EXCEPT !.background = code - 40]
      [] code = 49 -> [a EXCEPT !.background = 0]
      [] code \in 90..97 -> [a EXCEPT !.foreground = code - 82]
      [] OTHER -> a

\* the for loop of parseSGR over the codes, server.js:511-559
RECURSIVE ApplyCodes(_, _)
ApplyCodes(a, items) ==
    IF items = <<>> THEN a
    ELSE LET code == parseInt10(Head(items))
         IN  ApplyCodes(IF code.nan THEN a ELSE ApplyCode(a, code.value),
                        Tail(items))

\* parseSGR, server.js:503-561
parseSGR(a, params) ==
    IF params = <<>> \/ params = <<48>> THEN DefaultAttrs
    ELSE ApplyCodes(a, Split(params))

\* this.colors, server.js:449-466
colors ==
    [n \in 0..15 |->
        <<"#000000", "#aa0000", "#00aa00", "#aa5500", "#0000aa", "#aa00aa",
          "#00aaaa", "#aaaaaa", "#555555", "#ff5555", "#55ff55", "#ffff55",
          "#5555ff", "#ff55ff", "#55ffff", "#ffffff">>[n + 1]]

\* the foreground made bright by bold, server.js:480-483 and 492-493
BrightForegroundUnchecked(a) ==
    IF a.bold THEN a.foreground + 8 ELSE a.foreground

BrightForeground(a) ==
    IF a.bold /\ a.foreground < 8 THEN a.foreground + 8 ELSE a.foreground

\* "this.colors[n] || this.colors[d]", server.js:485, 487, 494, 496: an index
\* outside the table reads undefined and the default entry is taken
ColorOr(n, d) == IF n \in DOMAIN colors THEN colors[n] ELSE colors[d]

\* getForegroundColor, server.js:479-488
getForegroundColor(a) ==
    IF a.reverse THEN ColorOr(a.background, 0) ELSE ColorOr(BrightForeground(a), 7)

\* getBackgroundColor, server.js:490-497
getBackgroundColorNoReverse(a) == ColorOr(a.background, 0)

getBackgroundColor(a) ==
    IF a.reverse THEN ColorOr(BrightForeground(a), 7) ELSE ColorOr(a.background, 0)

\* "if (buffer) { segments.push({text, fg, bg}); buffer = '' }", server.js:586-593
Flush(L) ==
    IF L.buffer # <<>>
    THEN [L EXCEPT !.segments = Append(@, [text |-> L.buffer,
                                           fg |-> getForegroundColor(L.attrs),
                                           bg |-> getBackgroundColor(L.attrs)]),
                   !.buffer = <<>>]
    ELSE L

\* the loop that collects the parameter characters 0x30..0x3F from index j
\* on, server.js:605-613: the value of j when the loop is left
RECURSIVE CollectParamsDigitsOnly(_, _)
CollectParamsDigitsOnly(str, j) ==
    IF j <= Len(str) /\ str[j] >= 48 /\ str[j] <= 59
    THEN CollectParamsDigitsOnly(str, j + 1)
    ELSE j

RECURSIVE CollectParams(_, _)
CollectParams(str, j) ==
    IF j <= Len(str) /\ str[j] >= 48 /\ str[j] <= 63
    THEN CollectParams(str, j + 1)
    ELSE j

\* the switch on the final byte of a CSI sequence, server.js:619-642
CsiFinalAlwaysSGR(L, params, finalByte) ==
    [L EXCEPT !.attrs = parseSGR(L.attrs, params)]

CsiFinal(L, params, finalByte) ==
    CASE finalByte = 109 -> [L EXCEPT !.attrs = parseSGR(L.attrs, params)]
      [] finalByte \in {72, 102} ->
            [L EXCEPT !.segments = Append(@,
                [cursorMove |-> IF params = <<>> THEN <<49, 59, 49>> ELSE params])]
      [] finalByte = 74 ->
            IF params = <<>> \/ params = <<50>>
            THEN [L EXCEPT !.segments = Append(@, [clear |-> "screen"])]
            ELSE L
      [] finalByte = 75 -> [L EXCEPT !.segments = Append(@, [clear |-> "line"])]
      [] finalByte \in 65..68 ->
            [L EXCEPT !.segments = Append(@,
                [cursorMove |-> <<finalByte>>
                                   \o (IF params = <<>> THEN <<49>> ELSE params)])]
      [] OTHER -> L

\* one pass of the while loop of parse, server.js:579-703: L holds i, buffer,
\* segments and the attributes
AnsiIterCarriageReturnFlushes(L, str) ==
    LET i == L.i
        charCode == str[i]
    IN  IF charCode = 27
        THEN LET G == Flush(L)
             IN  IF i + 1 <= Len(str) /\ str[i + 1] = 91
                 THEN LET j == CollectParams(str, i + 2)
                      IN  IF j <= Len(str)
                          THEN [CsiFinal(G, SubSeq(str, i + 2, j - 1), str[j])
                                   EXCEPT !.i = j + 1]
                          ELSE [G EXCEPT !.i = i + 1]
                 ELSE IF i + 1 <= Len(str) /\ str[i + 1] = 45
                 THEN [G EXCEPT !.buffer = SubSeq(str, i, IF i + 2 <= Len(str)
                                                          THEN i + 2 ELSE Len(str)),
                                !.i = i + 3]
                 ELSE [G EXCEPT !.i = i + 1]
        ELSE IF charCode = 7
        THEN [Flush(L) EXCEPT !.segments = Append(@, [bell |-> TRUE]), !.i = i + 1]
        ELSE IF charCode = 13
        THEN [Flush(L) EXCEPT !.i = i + 1]
        ELSE IF charCode = 10
        THEN [Flush(L) EXCEPT !.segments = Append(@, [newline |-> TRUE]), !.i = i + 1]
        ELSE IF (charCode >= 32 /\ charCode < 127) \/ charCode >= 128
        THEN [L EXCEPT !.buffer = Append(@, charCode), !.i = i + 1]
        ELSE [L EXCEPT !.i = i + 1]

AnsiIter(L, str) ==
    LET i == L.i
        charCode == str[i]
    IN  IF charCode = 27
        THEN LET G == Flush(L)
             IN  IF i + 1 <= Len(str) /\ str[i + 1] = 91
                 THEN LET j == CollectParams(str, i + 2)
                      IN  IF j <= Len(str)
                          THEN [CsiFinal(G, SubSeq(str, i + 2, j - 1), str[j])
                                   EXCEPT !.i = j + 1]
                          ELSE [G EXCEPT !.i = i + 1]
                 ELSE IF i + 1 <= Len(str) /\ str[i + 1] = 45
                 THEN [G EXCEPT !.buffer = SubSeq(str, i, IF i + 2 <= Len(str)
                                                          THEN i + 2 ELSE Len(str)),
                                !.i = i + 3]
                 ELSE [G EXCEPT !.i = i + 1]
        ELSE IF charCode = 7
        THEN [Flush(L) EXCEPT !.segments = Append(@, [bell |-> TRUE]), !.i = i + 1]
        ELSE IF charCode = 13
        THEN [L EXCEPT !.i = i + 1]
        ELSE IF charCode = 10
        THEN [Flush(L) EXCEPT !.segments = Append(@, [newline |-> TRUE]), !.i = i + 1]
        ELSE IF (charCode >= 32 /\ charCode < 127) \/ charCode >= 128
        THEN [L EXCEPT !.buffer = Append(@, charCode), !.i = i + 1]
        ELSE [L EXCEPT !.i = i + 1]

\* the passes of the loop in order, each with the index it started at and
\* the variables it left
RECURSIVE AnsiTrace(_, _)
AnsiTrace(L, str) ==
    IF L.i > Len(str) THEN <<>>
    ELSE LET N == AnsiIter(L, str)
         IN  <<[at |-> L.i, after |-> N]>> \o AnsiTrace(N, str)

\* the local variables of parse when the loop starts, server.js:569-571
AnsiStart(a) == [i |-> 1, buffer |-> <<>>, segments |-> <<>>, attrs |-> a]

\* ANSIParser.parse, server.js:568-716: the attributes it leaves, the
\* filtered string and the segments it returns
ansiParseNoFinalFlush(a, data) ==
    LET filteredStr == filterTelnet(bytesToString(data))
        tr == AnsiTrace(AnsiStart(a), filteredStr)
        last == IF tr = <<>> THEN AnsiStart(a) ELSE tr[Len(tr)].after
    IN  [attrs |-> last.attrs, filtered |-> filteredStr, segments |-> last.segments]

ansiParse(a, data) ==
    LET filteredStr == filterTelnet(bytesToString(data))
        tr == AnsiTrace(AnsiStart(a), filteredStr)
        last == Flush(IF tr = <<>> THEN AnsiStart(a) ELSE tr[Len(tr)].after)
    IN  [attrs |-> last.attrs, filtered |-> filteredStr, segments |-> last.segments]

\* MUD2Protocol.getNAWS, mud2.js:437-444
getNAWS(width, height) ==
    <<255, 250, 31, 0, width % 256, 0, height % 256, 255, 240>>

\* MUD2Protocol.getTerminalType, mud2.js:449-456: type is a string
getTerminalTypeBareSE(type) == <<255, 250, 24, 0>> \o type \o <<240>>

getTerminalType(type) == <<255, 250, 24, 0>> \o type \o <<255, 240>>

-----------------------------------------------------------------------------
(* Inputs of MUD2Protocol.parse *)
MaxProtoFrags == 3
MaxProtoCalls == 2
MaxPad == 22

FESHeader == <<167, 163, 156, 255>>

\* the header and "1 2 3 4 5 6 7 8 ": one number short of a record
FESEight == FESHeader \o <<49, 32, 50, 32, 51, 32, 52, 32, 53, 32, 54, 32, 55, 32, 56, 32>>

ProtoFrags ==
    { FESHeader, FESEight,
      <<57>>,                 \* "9"
      <<32, 78, 32, 89>>,     \* " N Y"
      <<32, 83>>,             \* " S"
      <<10>>,                 \* LF
      <<200>>, <<255>>,
      <<27, 45, 67>>,         \* ESC - C
      <<157, 156>> }

ProtoChunks == SeqsUpTo(ProtoFrags, MaxProtoFrags)

\* k bytes "a"
Pad(k) == [n \in 1..k |-> 97]

VendorStarts == (155..164) \cup {167, 170, 200, 250, 254}

\* a vendor start byte, up to MaxPad + 3 bytes, and then a terminator or none
VendorChunks ==
    { pre \o <<b>> \o mid \o Pad(k) \o end :
        pre \in {<<>>, <<65>>},
        b \in VendorStarts,
        mid \in {<<>>, <<156>>, <<163, 156>>, <<27, 45, 67>>, <<13, 10>>},
        k \in 0..MaxPad,
        end \in {<<>>, <<255>>, <<255, 66>>} }

\* two vendor sequences in one message, with nothing, a letter or an ESC -
\* code between them
OrderChunks ==
    { a \o <<255>> \o x \o b \o <<255>> \o post :
        a \in {<<157, 156>>, <<160>>, <<200, 13>>},
        x \in {<<>>, <<66>>, <<27, 45, 82>>},
        b \in {<<157, 156>>, <<160>>, <<200, 13>>},
        post \in {<<>>, <<67>>} }

\* a stats record whose text holds digits, a vendor byte or an ESC - code,
\* ended by CR, by LF, by both or by the end of the message
RecordChunks ==
    { pre \o FESHeader \o body \o end \o post :
        pre \in {<<>>, <<65>>},
        body \in {<<>>, <<49, 32, 50>>, <<200, 49>>, <<155, 255>>, <<27, 45, 67>>,
                  <<49, 32, 50, 32, 51, 32, 52, 32, 53, 32, 54, 32, 55, 32, 56, 32, 57>>},
        end \in {<<>>, <<13>>, <<10>>, <<13, 10>>},
        post \in {<<>>, <<66>>, FESHeader} }

\* ESC alone, ESC -, and ESC - followed by a code byte, at the start, in the
\* middle and at the end of a message
EscCodes == {67, 82, 114, 75, 84, 65, 99, 27, 45, 200, 255}

EscChunks ==
    { pre \o <<27>> \o mid \o post :
        pre \in {<<>>, <<65>>, <<27>>},
        mid \in {<<>>, <<45>>} \cup {<<45, c>> : c \in EscCodes},
        post \in {<<>>, <<66>>, <<255>>} }

\* the three bytes of an ESC - code with a vendor sequence or a stats record
\* standing between two of them
SplitEscChunks ==
    { pre \o <<27>> \o v \o <<45, c>> \o post :
        pre \in {<<>>, <<65>>},
        v \in {<<155, 255>>, <<200, 65, 255>>, <<200>>, FESHeader \o <<49, 10>>},
        c \in {67, 82, 114, 75, 84, 65},
        post \in {<<>>, <<66>>} }
    \cup
    { pre \o <<27, 45>> \o v \o <<c>> \o post :
        pre \in {<<>>, <<65>>},
        v \in {<<155, 255>>, <<200, 65, 255>>, <<200>>, FESHeader \o <<49, 10>>},
        c \in {67, 82, 114, 75, 84, 65},
        post \in {<<>>, <<66>>} }

\* pieces of visible text: status-line items, whole and cut, and weather words
MaxVisFrags == 3
MaxVisCalls == 2

VisFrags ==
    { <<83, 116, 97, 58, 49, 50, 47, 51>>,
      <<115, 116, 97, 32, 52, 47>>,
      <<68, 101, 120, 53, 47, 54>>,
      <<83, 116, 114, 58, 32, 55, 47, 56>>,
      <<77, 97, 103, 32, 57>>,
      <<77, 97, 103, 58>>,
      <<80, 116, 115, 58, 49, 48>>,
      <<115, 117, 110, 110, 121>>,
      <<83, 116, 111, 114, 109, 121>>,
      <<55>>,
      <<47, 50>>,
      <<32>>,
      <<83, 116, 97, 160, 49, 47, 50>> }

VisTexts == SeqsUpTo(VisFrags, MaxVisFrags)

\* the texts that may follow a first text
VisLaterTexts ==
    { <<68, 101, 120, 53, 47, 54>>,
      <<120, 55>>,
      <<77, 97, 103, 32, 57, 32, 115, 117, 110, 110, 121>>,
      <<83, 116, 97, 58, 49, 50, 47, 51, 32, 80, 116, 115, 58, 49, 48>>,
      <<102, 111, 103, 103, 121>> }

\* Inputs of ANSIParser: pieces of terminal output (SGR sequences, other CSI
\* sequences, text, control characters, telnet sequences, cut sequences)
MaxAnsiFrags == 2
MaxTelFrags == 3
MaxReplyFrags == 3
MaxSGRItems == 3
MaxAnsiCalls == 2

AnsiFrags ==
    { <<27, 91, 49, 109>>,
      <<27, 91, 51, 49, 59, 52, 52, 109>>,
      <<27, 91, 55, 59, 57, 53, 109>>,
      <<27, 91, 48, 109>>,
      <<27, 91, 109>>,
      <<27, 91, 50, 74>>,
      <<27, 91, 51, 59, 52, 72>>,
      <<27, 91, 75>>,
      <<27, 91, 53, 65>>,
      <<27, 91, 49, 104>>,
      <<97>>,
      <<10>>,
      <<7>>,
      <<13>>,
      <<255, 251, 1>>,
      <<255, 250, 24, 1, 255, 240>>,
      <<255, 255>>,
      <<255>>,
      <<255, 241>>,
      <<27, 91, 49>>,
      <<109>>,
      <<27>>,
      <<91>>,
      <<27, 45, 67>>,
      <<0>>,
      <<49>> }

AnsiChunks == SeqsUpTo(AnsiFrags, MaxAnsiFrags)

\* pieces of telnet sequences, whole and cut
TelFrags ==
    { <<255>>,
      <<251>>,
      <<254>>,
      <<252>>,
      <<250>>,
      <<240>>,
      <<241>>,
      <<65>>,
      <<1>>,
      <<255, 250, 24>>,
      <<255, 240>>,
      <<253, 3>> }

TelChunks == SeqsUpTo(TelFrags, MaxTelFrags)

\* the chunks that may follow a parsed chunk
AnsiLaterChunks ==
    { <<97>>,
      <<27, 91, 48, 109>>,
      <<27, 91, 51, 49, 109>>,
      <<49, 109>>,
      <<10>>,
      <<27, 91, 50, 74>>,
      <<255, 251, 1, 98>> }

\* the codes of colour and intensity, the bright background codes that
\* parseSGR does not know among them
ColorItems ==
    { <<49>>, <<55>>, <<51, 48>>, <<51, 55>>, <<52, 48>>, <<52, 55>>,
      <<57, 48>>, <<57, 55>>, <<49, 48, 48>>, <<49, 48, 55>> }

\* one SGR sequence of one or two such codes, and the letter 'a' after it
ColorChunks ==
    {<<27, 91>> \o x \o <<109, 97>> : x \in ColorItems}
        \cup {<<27, 91>> \o x \o <<59>> \o y \o <<109, 97>> :
                 x \in ColorItems, y \in ColorItems}

\* a fragment between the letters 'a' and 'b'
RunChunks == {<<97>> \o x \o <<98>> : x \in AnsiFrags}

\* parameter strings and final bytes of CSI sequences: the known final
\* bytes, 'h', LF, ESC and the space
CsiParams == {<<>>, <<49>>, <<50>>, <<51, 59, 52>>, <<63>>}

CsiFinals == {109, 72, 102, 74, 75, 65, 66, 67, 68, 104, 10, 27, 32}

\* one CSI sequence between the letters 'a' and 'b'
CsiChunks ==
    {<<97, 27, 91>> \o ps \o <<f, 98>> : ps \in CsiParams, f \in CsiFinals}

\* the chunks whose negotiation replies are fed to the decoder
ReplyChunks == SeqsUpTo(NegFrags, MaxReplyFrags)

\* the widths and heights handed to getNAWS
NawsSizes == {0, 24, 80, 240, 250, 255, 256, 511, 65535}

\* the generators of protocol replies: the negotiator on a chunk, getNAWS and
\* getTerminalType('ansi')
ReplySources ==
    {[kind |-> "neg", chunk |-> c] : c \in ReplyChunks}
        \cup {[kind |-> "naws", width |-> w, height |-> h] :
                 w \in NawsSizes, h \in NawsSizes}
        \cup {[kind |-> "ttype", type |-> <<97, 110, 115, 105>>]}

SourceBytes(src) ==
    CASE src.kind = "neg" -> handleTelnetNegotiation(src.chunk)
      [] src.kind = "naws" -> getNAWS(src.width, src.height)
      [] src.kind = "ttype" -> getTerminalType(src.type)

\* the items of SGR parameter strings, and the strings of up to MaxSGRItems
\* items joined by ';'
SGRItems ==
    { <<>>,
      <<48>>,
      <<48, 48>>,
      <<49>>,
      <<55>>,
      <<50, 50>>,
      <<50, 55>>,
      <<51, 49>>,
      <<51, 57>>,
      <<52, 52>>,
      <<52, 57>>,
      <<57, 53>>,
      <<53>>,
      <<49, 63>> }

RECURSIVE Join(_)
Join(items) ==
    IF Len(items) = 1 THEN items[1]
    ELSE items[1] \o <<59>> \o Join(Tail(items))

RECURSIVE ItemLists(_)
ItemLists(n) ==
    IF n = 1 THEN {<<x>> : x \in SGRItems}
    ELSE ItemLists(n - 1)
            \cup {Append(l, x) : l \in {m \in ItemLists(n - 1) : Len(m) = n - 1},
                                 x \in SGRItems}

SGRParamStrings == {Join(l) : l \in ItemLists(MaxSGRItems)}

\* the parameter strings that may follow a first one
SGRLaterParams ==
    { <<>>,
      <<48>>,
      <<49, 59, 48>>,
      <<55, 59, 48, 48>>,
      <<51, 49, 59, 52, 52>>,
      <<50, 50, 59, 50, 55>>,
      <<59>> }

\* the messages that may follow a parsed message
LaterChunks ==
    { FESHeader \o <<50, 32, 50, 32, 50, 32, 50, 32, 50, 32, 50, 32, 50, 32, 50, 32, 50, 32, 89, 32, 89, 32, 89, 32, 89, 32, 51, 32, 114, 10>>,
      FESHeader \o <<53, 32, 53, 32, 53, 32, 53, 32, 53, 32, 53, 32, 53, 32, 53, 32, 53>>,
      FESHeader \o <<49, 32, 50, 32, 51, 32, 89, 32, 83, 10>>,
      <<27, 45, 67>>,
      <<157, 156, 255>>,
      <<72, 105>>,
      <<57, 10, 66>>,
      <<200, 65, 255, 27, 45, 82>> }

-----------------------------------------------------------------------------
(* Initial values of the three components *)
\* the negotiator with its first chunk at hand
NegInit ==
    /\ negData \in NegChunks /\ responses = <<>>
    /\ negCalls = 0 /\ negPc = "recv" /\ negTail = <<>> /\ negOpen = FALSE

\* the negotiator before any chunk
NegIdle ==
    /\ negData = <<>> /\ responses = <<>>
    /\ negCalls = 0 /\ negPc = "replied" /\ negTail = <<>> /\ negOpen = FALSE

\* wss.on('connection'), server.js:128-140
ProxyInit ==
    /\ connected = FALSE /\ mudState = "connecting" /\ wsReady = "OPEN"
    /\ mudLog = <<>> /\ received = <<>> /\ wsIn = <<>>

\* MUD2Protocol constructor, mud2.js:7-43
InitStats ==
    [stamina |-> 0, maxStamina |-> 0, dexterity |-> 0, maxDexterity |-> 0,
     strength |-> 0, maxStrength |-> 0, magic |-> 0, maxMagic |-> 0,
     score |-> 0, weather |-> "", blind |-> FALSE, deaf |-> FALSE,
     crippled |-> FALSE, dumb |-> FALSE]

\* a new MUD2Protocol that has parsed nothing
ProtoIdle ==
    /\ mode = "TELNET" /\ stats = InitStats
    /\ pData = <<>> /\ cleanData = <<>> /\ commands = <<>>
    /\ notified = <<>> /\ modeEvents = <<>>
    /\ prevMode = "TELNET" /\ prevStats = InitStats
    /\ protoCalls = 0 /\ protoPc = "parsed" /\ recOpen = FALSE

\* a new MUD2Protocol with its first message at hand
ProtoInit ==
    /\ mode = "TELNET" /\ stats = InitStats
    /\ pData \in ProtoChunks \cup VendorChunks \cup EscChunks \cup SplitEscChunks
                \cup OrderChunks \cup RecordChunks
    /\ cleanData = <<>> /\ commands = <<>>
    /\ notified = <<>> /\ modeEvents = <<>>
    /\ prevMode = "TELNET" /\ prevStats = InitStats
    /\ protoCalls = 0 /\ protoPc = "recv" /\ recOpen = FALSE

\* no parseVisibleStats call yet
VisIdle ==
    /\ vText = <<>> /\ vReturn = FALSE /\ visCalls = 0 /\ visPc = "done"

\* a new ANSIParser that has been handed nothing
AnsiIdle ==
    /\ foreground = 7 /\ background = 0 /\ bold = FALSE /\ reverse = FALSE
    /\ prevAttrs = DefaultAttrs
    /\ sgrParams = <<>> /\ aSource = [kind |-> "none"] /\ aData = <<>>
    /\ filtered = <<>> /\ segments = <<>>
    /\ ansiCalls = 0 /\ ansiPc = "done"

\* a session, new or in GAME after a stats record, with a first text at hand
VisInit ==
    /\ \E prior \in {Session("TELNET", InitStats),
                      parse(Session("TELNET", InitStats),
                            FESHeader \o <<50, 32, 50, 32, 50, 32, 50, 32, 50, 32, 50, 32, 50, 32, 50, 32, 50, 32, 89, 32, 89, 32, 89, 32, 89, 32, 51, 32, 114, 10>>).session} :
           /\ mode = prior.mode /\ stats = prior.stats
           /\ prevMode = prior.mode /\ prevStats = prior.stats
    /\ pData = <<>> /\ cleanData = <<>> /\ commands = <<>>
    /\ notified = <<>> /\ modeEvents = <<>>
    /\ protoCalls = 0 /\ protoPc = "parsed" /\ recOpen = FALSE
    /\ vText \in VisTexts /\ vReturn = FALSE /\ visCalls = 0 /\ visPc = "recv"

\* a new ANSIParser with a first chunk at hand, from the MUD or from a reply
\* generator
AnsiInit ==
    /\ foreground = 7 /\ background = 0 /\ bold = FALSE /\ reverse = FALSE
    /\ prevAttrs = DefaultAttrs
    /\ sgrParams = <<>>
    /\ \/ aSource = [kind |-> "mud"]
          /\ aData \in AnsiChunks \cup TelChunks \cup ColorChunks \cup RunChunks
                         \cup CsiChunks
       \/ aSource \in ReplySources /\ aData = SourceBytes(aSource)
    /\ filtered = <<>> /\ segments = <<>>
    /\ ansiCalls = 0 /\ ansiPc = "recv"

\* a new ANSIParser with a first parameter string at hand
SGRInit ==
    /\ foreground = 7 /\ background = 0 /\ bold = FALSE /\ reverse = FALSE
    /\ prevAttrs = DefaultAttrs
    /\ sgrParams \in SGRParamStrings
    /\ aSource = [kind |-> "none"] /\ aData = <<>>
    /\ filtered = <<>> /\ segments = <<>>
    /\ ansiCalls = 0 /\ ansiPc = "sgr"

\* the sockets a client holds at a time
MaxSocks == 2

\* new MUD3Client, mud2.js:479-514: no socket, no timer, not connected
ClientIdle ==
    /\ socks = [n \in 1..MaxSocks |-> "free"] /\ cur = 0
    /\ cConnected = FALSE /\ reconnectTimer = FALSE /\ timers = 0
    /\ cEvent = "new" /\ cLog = <<>> /\ cSent = <<>> /\ lost = FALSE

Init == NegIdle /\ ProxyInit /\ ProtoIdle /\ VisIdle /\ AnsiIdle /\ ClientIdle

InitNeg == NegInit /\ ProxyInit /\ ProtoIdle /\ VisIdle /\ AnsiIdle /\ ClientIdle

InitProto == NegIdle /\ ProxyInit /\ ProtoInit /\ VisIdle /\ AnsiIdle /\ ClientIdle

-----------------------------------------------------------------------------
(* The proxy session, server.js:128-231.  Every handler runs to completion *)
(* before the next event is taken (one JavaScript thread).  mudLog lists   *)
(* the socket calls in the order the program makes them; chunk is the      *)
(* number of the 'data' event that made the call, 0 for any other handler. *)
MaxChunks == 3

ProxyChunks ==
    { <<72, 105>>, <<IAC, DO, TERMINAL_TYPE>>, <<72, IAC, DO, NAWS, 10>> }

Call(op, n, bytes) == [op |-> op, chunk |-> n, bytes |-> bytes]

\* mudSocket.on('connect'), server.js:142-152
MudConnect ==
    /\ mudState = "connecting"
    /\ mudState' = "established"
    /\ connected' = TRUE
    /\ mudLog' = Append(mudLog, Call("ws.send", 0, <<"status", "connected">>))
    /\ UNCHANGED <<wsReady, received, wsIn, negVars, protoVars, visVars, ansiVars, clientVars>>

\* the calls of mudSocket.on('data') for chunk number n, server.js:155-166
DataCallsRelayFirst(data, n, ready) ==
    (IF ready = "OPEN" THEN <<Call("ws.send", n, data)>> ELSE <<>>)
    \o (IF Len(handleTelnetNegotiation(data)) > 0
        THEN <<Call("mud.write", n, handleTelnetNegotiation(data))>>
        ELSE <<>>)

DataCalls(data, n, ready) ==
    (IF Len(handleTelnetNegotiation(data)) > 0
     THEN <<Call("mud.write", n, handleTelnetNegotiation(data))>>
     ELSE <<>>)
    \o (IF ready = "OPEN" THEN <<Call("ws.send", n, data)>> ELSE <<>>)

\* mudSocket.on('data'), server.js:155-166
MudData(data) ==
    /\ mudState = "established"
    /\ Len(received) < MaxChunks
    /\ received' = Append(received, [bytes |-> data, ready |-> wsReady])
    /\ mudLog' = mudLog \o DataCalls(data, Len(received) + 1, wsReady)
    /\ UNCHANGED <<connected, mudState, wsReady, wsIn, negVars, protoVars, visVars, ansiVars, clientVars>>

\* mudSocket.on('close'), server.js:179-189
MudClose ==
    /\ mudState # "closed"
    /\ mudState' = "closed"
    /\ connected' = FALSE
    /\ IF wsReady = "OPEN"
       THEN /\ mudLog' = mudLog \o <<Call("ws.send", 0, <<"status", "disconnected">>),
                                     Call("ws.close", 0, <<>>)>>
            /\ wsReady' = "CLOSING"
       ELSE UNCHANGED <<mudLog, wsReady>>
    /\ UNCHANGED <<received, wsIn, negVars, protoVars, visVars, ansiVars, clientVars>>

\* ws.on('close'), server.js:218-223
WsClose ==
    /\ wsReady # "CLOSED"
    /\ wsReady' = "CLOSED"
    /\ mudLog' = IF connected THEN Append(mudLog, Call("mud.end", 0, <<>>))
                 ELSE mudLog
    /\ UNCHANGED <<connected, mudState, received, wsIn, negVars, protoVars, visVars, ansiVars, clientVars>>

\* ws.on('error'), server.js:225-230.  The socket that had the error is on
\* its way to closing: its 'close' event follows
WsError ==
    /\ wsReady = "OPEN"
    /\ wsReady' = "CLOSING"
    /\ mudLog' = IF connected THEN Append(mudLog, Call("mud.end", 0, <<>>))
                 ELSE mudLog
    /\ UNCHANGED <<connected, mudState, received, wsIn, negVars, protoVars, visVars, ansiVars, clientVars>>

MaxWsMsgs == 1

\* the messages of the browser: a binary message, the JSON command
\* {type:'data'} and a JSON command of a type the proxy does not know; bytes
\* is what the handler hands to mudSocket.write for it.  {type:'raw'} and a
\* text that is not JSON (kinds "raw" and "text") are written as "data" is
WsMessages ==
    { [kind |-> "buffer", bytes |-> <<108, 10>>],
      [kind |-> "data", bytes |-> <<110, 13, 10>>],
      [kind |-> "other", bytes |-> <<>>] }

\* the calls of ws.on('message') once it is past the connected test,
\* server.js:198-215
Forwarded(message) ==
    IF message.kind = "other" THEN <<>>
    ELSE <<Call("mud.write", 0, message.bytes)>>

WsMessageUnchecked(message) ==
    /\ wsReady # "CLOSED"
    /\ Len(wsIn) < MaxWsMsgs
    /\ wsIn' = Append(wsIn, [message |-> message, mud |-> mudState])
    /\ mudLog' = mudLog \o Forwarded(message)
    /\ UNCHANGED <<connected, mudState, wsReady, received, negVars, protoVars, visVars, ansiVars, clientVars>>

\* ws.on('message'), server.js:192-216
WsMessage(message) ==
    /\ wsReady # "CLOSED"
    /\ Len(wsIn) < MaxWsMsgs
    /\ wsIn' = Append(wsIn, [message |-> message, mud |-> mudState])
    /\ mudLog' = IF ~connected THEN mudLog ELSE mudLog \o Forwarded(message)
    /\ UNCHANGED <<connected, mudState, wsReady, received, negVars, protoVars, visVars, ansiVars, clientVars>>

NextProxy ==
    \/ MudConnect
    \/ \E data \in ProxyChunks : MudData(data)
    \/ MudClose
    \/ WsClose
    \/ WsError
    \/ \E message \in WsMessages : WsMessage(message)

SpecProxy == Init /\ [][NextProxy]_vars

\* a WebSocket that is closing does close
WsClosingCloses == wsReady = "CLOSING" /\ WsClose

\* the connection attempt to the MUD comes to an end, and so does the closing
\* of the WebSocket; how long the MUD keeps an established connection, what
\* it sends and what the browser does are left open
SpecProxyFair == SpecProxy /\ WF_vars(MudConnect) /\ WF_vars(WsClosingCloses)

-----------------------------------------------------------------------------
(* The negotiator applied to one chunk after another *)
\* mudSocket delivers the next chunk
\* the end of a chunk: its last two bytes, or all of a shorter chunk
LastTwo(data) ==
    IF Len(data) <= 2 THEN data ELSE SubSeq(data, Len(data) - 1, Len(data))

\* the "Find SE" loop of some pass ran to the end of the chunk without
\* finding IAC SE, server.js:99-105
EndsInSub(data) ==
    \E tr \in {NegTrace(data, 1)} :
        \E k \in 1..Len(tr) :
            \E i \in {tr[k].at} :
                /\ data[i] = IAC /\ i + 2 <= Len(data) /\ data[i + 1] = SB
                /\ \E j \in {FindSE(data, i + 3)} :
                      ~(j < Len(data) /\ data[j] = IAC /\ data[j + 1] = SE)

NegArrive(chunk) ==
    /\ negPc = "replied" /\ negCalls < MaxNegCalls
    /\ negData' = chunk /\ responses' = <<>> /\ negPc' = "recv"
    /\ negTail' = LastTwo(negData)
    /\ negOpen' = EndsInSub(negData)
    /\ UNCHANGED <<negCalls, proxyVars, protoVars, visVars, ansiVars, clientVars>>

\* const response = handleTelnetNegotiation(data), server.js:157
NegotiateWithCarry ==
    /\ negPc = "recv"
    /\ responses' = handleTelnetNegotiation(
                        (IF negTail # <<>> /\ negTail[1] = IAC THEN negTail
                         ELSE IF negTail # <<>> /\ negTail[Len(negTail)] = IAC
                         THEN <<IAC>> ELSE <<>>) \o negData)
    /\ negCalls' = negCalls + 1 /\ negPc' = "replied"
    /\ UNCHANGED <<negData, negTail, negOpen, proxyVars, protoVars, visVars, ansiVars, clientVars>>

Negotiate ==
    /\ negPc = "recv"
    /\ responses' = handleTelnetNegotiation(negData)
    /\ negCalls' = negCalls + 1 /\ negPc' = "replied"
    /\ UNCHANGED <<negData, negTail, negOpen, proxyVars, protoVars, visVars, ansiVars, clientVars>>

NextNeg == Negotiate \/ \E chunk \in NegLaterChunks : NegArrive(chunk)

SpecNeg == InitNeg /\ [][NextNeg]_vars

-----------------------------------------------------------------------------
(* One MUD2Protocol object whose parse method is called with one message   *)
(* after another                                                          *)
\* the loop of parse was left from inside the record branch, mud2.js:82: the
\* last pass collected a record up to the end of the message
EndsInRecord(S, data) == parse(S, data).kind = "fes"

\* the next binary message arrives
Deliver(data) ==
    /\ protoPc = "parsed" /\ protoCalls < MaxProtoCalls
    /\ pData' = data /\ protoPc' = "recv"
    /\ cleanData' = <<>> /\ commands' = <<>>
    /\ notified' = <<>> /\ modeEvents' = <<>>
    /\ prevMode' = mode /\ prevStats' = stats
    /\ recOpen' = EndsInRecord(Session(prevMode, prevStats), pData)
    /\ UNCHANGED <<mode, stats, protoCalls, negVars, proxyVars, visVars, ansiVars, clientVars>>

\* parse(data), mud2.js:65-147
Parse ==
    /\ protoPc = "recv"
    /\ \E R \in {parse(Session(mode, stats), pData)} :
           /\ mode' = R.session.mode
           /\ stats' = R.session.stats
           /\ notified' = R.session.notified
           /\ modeEvents' = R.session.modeEvents
           /\ cleanData' = R.cleanBytes
           /\ commands' = R.commands
    /\ prevMode' = mode /\ prevStats' = stats
    /\ protoCalls' = protoCalls + 1 /\ protoPc' = "parsed"
    /\ UNCHANGED <<pData, recOpen, negVars, proxyVars, visVars, ansiVars, clientVars>>

NextProto == Parse \/ \E data \in LaterChunks : Deliver(data)

SpecProto == InitProto /\ [][NextProto]_vars

-----------------------------------------------------------------------------
(* One MUD2Protocol object whose parseVisibleStats method is called with   *)
(* one text after another                                                  *)
\* the next text arrives
VisArrive(text) ==
    /\ visPc = "done" /\ visCalls < MaxVisCalls
    /\ vText' = text /\ visPc' = "recv"
    /\ notified' = <<>> /\ modeEvents' = <<>>
    /\ prevMode' = mode /\ prevStats' = stats
    /\ UNCHANGED <<mode, stats, pData, cleanData, commands, protoCalls, protoPc, recOpen,
                   vReturn, visCalls, negVars, proxyVars, ansiVars, clientVars>>

\* parseVisibleStats(text), mud2.js:355-399
ParseVisible ==
    /\ visPc = "recv"
    /\ \E R \in {parseVisibleStats(Session(mode, stats), vText)} :
           /\ mode' = R.session.mode
           /\ stats' = R.session.stats
           /\ notified' = R.session.notified
           /\ modeEvents' = R.session.modeEvents
           /\ vReturn' = R.updated
    /\ prevMode' = mode /\ prevStats' = stats
    /\ visCalls' = visCalls + 1 /\ visPc' = "done"
    /\ UNCHANGED <<pData, cleanData, commands, protoCalls, protoPc, recOpen, vText,
                   negVars, proxyVars, ansiVars, clientVars>>

NextVisible == ParseVisible \/ \E text \in VisLaterTexts : VisArrive(text)

InitVisible == NegIdle /\ ProxyInit /\ VisInit /\ AnsiIdle /\ ClientIdle

SpecVisible == InitVisible /\ [][NextVisible]_vars

-----------------------------------------------------------------------------
(* One ANSIParser whose parse method is called with one chunk after another *)
Attrs == [foreground |-> foreground, background |-> background,
          bold |-> bold, reverse |-> reverse]

\* the next chunk arrives
AnsiArrive(data) ==
    /\ ansiPc = "done" /\ ansiCalls < MaxAnsiCalls
    /\ aData' = data /\ aSource' = [kind |-> "mud"] /\ ansiPc' = "recv"
    /\ filtered' = <<>> /\ segments' = <<>>
    /\ prevAttrs' = Attrs
    /\ UNCHANGED <<foreground, background, bold, reverse, sgrParams, ansiCalls,
                   negVars, proxyVars, protoVars, visVars, clientVars>>

\* parse(data), server.js:568-716
AnsiParse ==
    /\ ansiPc = "recv"
    /\ \E R \in {ansiParse(Attrs, aData)} :
           /\ foreground' = R.attrs.foreground
           /\ background' = R.attrs.background
           /\ bold' = R.attrs.bold
           /\ reverse' = R.attrs.reverse
           /\ filtered' = R.filtered
           /\ segments' = R.segments
    /\ prevAttrs' = Attrs
    /\ ansiCalls' = ansiCalls + 1 /\ ansiPc' = "done"
    /\ UNCHANGED <<sgrParams, aSource, aData, negVars, proxyVars, protoVars, visVars, clientVars>>

NextAnsi == AnsiParse \/ \E data \in AnsiLaterChunks : AnsiArrive(data)

InitAnsi == NegIdle /\ ProxyInit /\ ProtoIdle /\ VisIdle /\ AnsiInit /\ ClientIdle

SpecAnsi == InitAnsi /\ [][NextAnsi]_vars

-----------------------------------------------------------------------------
(* One ANSIParser whose parseSGR method is called with one parameter       *)
(* string after another                                                    *)
\* the next parameter string arrives
SGRArrive(params) ==
    /\ ansiPc = "done" /\ ansiCalls < MaxAnsiCalls
    /\ sgrParams' = params /\ ansiPc' = "sgr"
    /\ prevAttrs' = Attrs
    /\ UNCHANGED <<foreground, background, bold, reverse, aSource, aData,
                   filtered, segments, ansiCalls,
                   negVars, proxyVars, protoVars, visVars, clientVars>>

\* parseSGR(params), server.js:503-561
CallSGR ==
    /\ ansiPc = "sgr"
    /\ \E a \in {parseSGR(Attrs, sgrParams)} :
           /\ foreground' = a.foreground
           /\ background' = a.background
           /\ bold' = a.bold
           /\ reverse' = a.reverse
    /\ prevAttrs' = Attrs
    /\ ansiCalls' = ansiCalls + 1 /\ ansiPc' = "done"
    /\ UNCHANGED <<sgrParams, aSource, aData, filtered, segments,
                   negVars, proxyVars, protoVars, visVars, clientVars>>

NextSGR == CallSGR \/ \E params \in SGRLaterParams : SGRArrive(params)

InitSGR == NegIdle /\ ProxyInit /\ ProtoIdle /\ VisIdle /\ SGRInit /\ ClientIdle

SpecSGR == InitSGR /\ [][NextSGR]_vars

-----------------------------------------------------------------------------
(* MUD3Client, mud2.js:478-959: one client object with its MUD2Protocol,   *)
(* its ANSIParser and the WebSockets it has made.  A socket keeps its four *)
(* handlers after the client has let go of it, so its events still reach   *)
(* the client.                                                             *)
\* options.autoReconnect when the page makes the client, mud2.js:482, 958
autoReconnect == TRUE

\* the binary messages the proxy relays: a letter; an unknown vendor code
\* and ESC - R; the game marker, ESC [ 1 m and the text "Sta:12/3"
ClientChunks ==
    { <<97>>,
      <<200, 65, 255, 27, 45, 82>>,
      <<157, 156, 255, 27, 91, 49, 109, 83, 116, 97, 58, 49, 50, 47, 51>> }

\* the status fields of the JSON messages the proxy sends, server.js:146-186
StatusMessages == {"connected", "disconnected", "error"}

\* the client's connection fields
Client == [connected |-> cConnected, reconnectTimer |-> reconnectTimer,
           timers |-> timers]

\* scheduleReconnect, mud2.js:801-809: setTimeout makes one more live timer
scheduleReconnect(C) ==
    IF C.reconnectTimer THEN C
    ELSE [C EXCEPT !.reconnectTimer = TRUE, !.timers = @ + 1]

\* onClose, mud2.js:786-794
onClose(C, wasClean) ==
    LET D == [C EXCEPT !.connected = FALSE]
    IN  IF autoReconnect /\ ~wasClean THEN scheduleReconnect(D) ELSE D

\* handleStatusMessage, mud2.js:750-770
handleStatusMessage(C, status) ==
    IF status = "disconnected"
    THEN scheduleReconnect([C EXCEPT !.connected = FALSE])
    ELSE C

\* sendRaw twice under 'connected', mud2.js:755-756 and 843-847: what goes
\* out on this.ws
StatusSends(sk, c, status) ==
    IF status = "connected" /\ c # 0 /\ sk[c] = "OPEN"
    THEN <<getTerminalType(<<97, 110, 115, 105>>), getNAWS(80, 24)>>
    ELSE <<>>

\* the slots that hold no socket once this.ws is replaced
FreeSlots(sk, c) ==
    {n \in 1..MaxSocks : sk[n] = "free" \/ (n = c /\ sk[n] = "CLOSED")}

\* connect, mud2.js:666-686: nothing when this.ws is open, else a new
\* WebSocket takes the place of this.ws
connect(sk, c) ==
    IF c # 0 /\ sk[c] = "OPEN" THEN [socks |-> sk, cur |-> c, made |-> FALSE]
    ELSE LET n == CHOOSE x \in FreeSlots(sk, c) :
                     \A y \in FreeSlots(sk, c) : x <= y
             released == IF c # 0 /\ sk[c] = "CLOSED"
                         THEN [sk EXCEPT ![c] = "free"] ELSE sk
         IN  [socks |-> [released EXCEPT ![n] = "CONNECTING"], cur |-> n,
              made |-> TRUE]

\* the model holds at most MaxSocks sockets at a time
CanConnect(sk, c) == (c # 0 /\ sk[c] = "OPEN") \/ FreeSlots(sk, c) # {}

\* this.ws.close(), mud2.js:695: the state the socket goes to
closeSocket(state) ==
    CASE state = "OPEN" -> "CLOSING"
      [] state = "CONNECTING" -> "ABORTING"
      [] state = "CLOSED" -> "free"
      [] OTHER -> state

\* "this.ansiParser.parse(cleanData)" and "bytesToString(cleanData)",
\* mud2.js:742-746: what the two later stages are handed, given the message
\* and what mud2.parse returned for it
laterInputRaw(data, P) == data

laterInput(data, P) == P.cleanBytes

\* the calls onMessage makes for a binary message, in program order,
\* mud2.js:731-747: P is what mud2.parse returned, segs what
\* ansiParser.parse returned
onMessageCalls(data, P, segs) ==
    <<[call |-> "mud2.parse", data |-> data]>>
       \o [k \in 1..Len(P.commands) |->
              [call |-> "handleMUD2Command", cmd |-> P.commands[k]]]
       \o <<[call |-> "ansiParser.parse", data |-> laterInput(data, P)],
            [call |-> "terminal.writeSegments", segments |-> segs],
            [call |-> "mud2.parseVisibleStats",
             text |-> bytesToString(laterInput(data, P))]>>

SetClient(C) ==
    /\ cConnected' = C.connected
    /\ reconnectTimer' = C.reconnectTimer
    /\ timers' = C.timers

\* Enter or the connect button while this.connected is false,
\* mud2.js:604-605 and 703-708
UserConnect ==
    /\ ~cConnected /\ CanConnect(socks, cur)
    /\ \E R \in {connect(socks, cur)} :
           /\ socks' = R.socks /\ cur' = R.cur
           /\ lost' = (lost /\ ~R.made)
    /\ cEvent' = "connect" /\ cSent' = <<>>
    /\ UNCHANGED <<cConnected, reconnectTimer, timers, cLog,
                   negVars, proxyVars, protoVars, visVars, ansiVars>>

\* the connect button while this.connected is true: disconnect,
\* mud2.js:688-701
UserDisconnect ==
    /\ cConnected
    /\ reconnectTimer' = FALSE
    /\ timers' = IF reconnectTimer THEN timers - 1 ELSE timers
    /\ socks' = IF cur # 0 THEN [socks EXCEPT ![cur] = closeSocket(@)] ELSE socks
    /\ cur' = 0
    /\ cConnected' = FALSE
    /\ lost' = FALSE
    /\ cEvent' = "disconnect" /\ cSent' = <<>>
    /\ UNCHANGED <<cLog, negVars, proxyVars, protoVars, visVars, ansiVars>>

\* the callback of the reconnect timer, mud2.js:805-808
ReconnectTimer ==
    /\ timers > 0 /\ CanConnect(socks, cur)
    /\ reconnectTimer' = FALSE /\ timers' = timers - 1
    /\ \E R \in {connect(socks, cur)} :
           /\ socks' = R.socks /\ cur' = R.cur
           /\ lost' = (lost /\ ~R.made)
    /\ cEvent' = "timer" /\ cSent' = <<>>
    /\ UNCHANGED <<cConnected, cLog,
                   negVars, proxyVars, protoVars, visVars, ansiVars>>

\* ws.onopen, mud2.js:710-715
ClientOpen(s) ==
    /\ socks[s] = "CONNECTING"
    /\ socks' = [socks EXCEPT ![s] = "OPEN"]
    /\ cConnected' = TRUE
    /\ cEvent' = "open" /\ cSent' = <<>>
    /\ UNCHANGED <<cur, reconnectTimer, timers, cLog, lost,
                   negVars, proxyVars, protoVars, visVars, ansiVars>>

\* a socket that never opens, or an open one that fails: ws.onerror and
\* then ws.onclose with wasClean false, mud2.js:796-799 and 786-794; and
\* ws.onclose of a socket that closes, cleanly or not
ClientClose(s, wasClean) ==
    /\ \/ socks[s] \in {"OPEN", "CLOSING"}
       \/ socks[s] \in {"CONNECTING", "ABORTING"} /\ ~wasClean
    /\ socks' = [socks EXCEPT ![s] = IF s = cur THEN "CLOSED" ELSE "free"]
    /\ SetClient(onClose(Client, wasClean))
    /\ lost' = (lost \/ (s = cur /\ socks[s] = "OPEN"))
    /\ cEvent' = "close" /\ cSent' = <<>>
    /\ UNCHANGED <<cur, cLog,
                   negVars, proxyVars, protoVars, visVars, ansiVars>>

\* ws.onmessage with a JSON status message, mud2.js:718-729 and 750-770
ClientStatus(s, status) ==
    /\ socks[s] \in {"OPEN", "CLOSING"}
    /\ SetClient(handleStatusMessage(Client, status))
    /\ cSent' = StatusSends(socks, cur, status)
    /\ lost' = (lost \/ (status = "disconnected" /\ s = cur /\ socks[s] = "OPEN"))
    /\ cEvent' = "status"
    /\ UNCHANGED <<socks, cur, cLog,
                   negVars, proxyVars, protoVars, visVars, ansiVars>>

\* ws.onmessage with a binary message, mud2.js:718-748
ClientBinary(s, data) ==
    /\ socks[s] \in {"OPEN", "CLOSING"}
    /\ \E P \in {parse(Session(mode, stats), data)} :
       \E input \in {laterInput(data, P)} :
       \E A \in {ansiParse(Attrs, input)} :
       \E text \in {bytesToString(input)} :
       \E V \in {parseVisibleStats(P.session, text)} :
           /\ mode' = V.session.mode
           /\ stats' = V.session.stats
           /\ notified' = V.session.notified
           /\ modeEvents' = V.session.modeEvents
           /\ cleanData' = P.cleanBytes
           /\ commands' = P.commands
           /\ aData' = input
           /\ filtered' = A.filtered
           /\ segments' = A.segments
           /\ foreground' = A.attrs.foreground
           /\ background' = A.attrs.background
           /\ bold' = A.attrs.bold
           /\ reverse' = A.attrs.reverse
           /\ vText' = text
           /\ vReturn' = V.updated
           /\ cLog' = onMessageCalls(data, P, A.segments)
    /\ pData' = data
    /\ prevMode' = mode /\ prevStats' = stats /\ prevAttrs' = Attrs
    /\ cEvent' = "binary" /\ cSent' = <<>>
    /\ UNCHANGED <<socks, cur, cConnected, reconnectTimer, timers, lost,
                   protoCalls, protoPc, recOpen, visCalls, visPc,
                   sgrParams, aSource, ansiCalls, ansiPc,
                   negVars, proxyVars>>

\* the events of the sockets
SocketEvent ==
    \E s \in 1..MaxSocks :
       \/ ClientOpen(s)
       \/ \E wasClean \in BOOLEAN : ClientClose(s, wasClean)
       \/ \E status \in StatusMessages : ClientStatus(s, status)
       \/ \E data \in ClientChunks : ClientBinary(s, data)

NextClient == UserConnect \/ UserDisconnect \/ ReconnectTimer \/ SocketEvent

InitClient == NegIdle /\ ProxyInit /\ ProtoIdle /\ VisIdle /\ AnsiIdle /\ ClientIdle

SpecClient == InitClient /\ [][NextClient]_vars

\* a socket the client has closed does close
ClosingCloses ==
    \E s \in 1..MaxSocks :
       socks[s] \in {"CLOSING", "ABORTING"} /\ ClientClose(s, socks[s] = "CLOSING")

\* the browser runs the timer callback and ends the closing handshake
SpecClientFair ==
    SpecClient /\ WF_vars(ReconnectTimer) /\ WF_vars(ClosingCloses)

-----------------------------------------------------------------------------
(* What the claims about the negotiator speak of, stated on the chunk alone *)

SetMin(S) == CHOOSE x \in S : \A y \in S : x <= y

\* an IAC DO <opt> or IAC WILL <opt> triple lies wholly inside the chunk at p
IsRequestAt(data, p) ==
    p + 2 <= Len(data) /\ data[p] = 255 /\ data[p + 1] \in {253, 251}

\* IAC SB <opt> lies inside the chunk at p
IsSubAt(data, p) ==
    p + 2 <= Len(data) /\ data[p] = 255 /\ data[p + 1] = 250

\* the places of an IAC SE after the option byte of the IAC SB at p
MatchingSE(data, p) ==
    {j \in (p + 3)..(Len(data) - 1) : data[j] = 255 /\ data[j + 1] = 240}

\* the last byte of the subnegotiation that starts at p: the SE of its
\* matching IAC SE, or the last byte of the chunk when there is none
SubEndOf(data, p) ==
    IF MatchingSE(data, p) = {} THEN Len(data)
    ELSE SetMin(MatchingSE(data, p)) + 1

\* the last byte of the unit (request, subnegotiation or single byte) at p
UnitEnd(data, p) ==
    IF IsRequestAt(data, p) THEN p + 2
    ELSE IF IsSubAt(data, p) THEN SubEndOf(data, p)
    ELSE p

\* where the units of the chunk start, from p on: a request or a
\* subnegotiation is one unit, and no unit starts inside another
RECURSIVE UnitStarts(_, _)
UnitStarts(data, p) ==
    IF p > Len(data) THEN {}
    ELSE {p} \cup UnitStarts(data, UnitEnd(data, p) + 1)

Requests(data) == {p \in UnitStarts(data, 1) : IsRequestAt(data, p)}

Subnegotiations(data) == {p \in UnitStarts(data, 1) : IsSubAt(data, p)}

InsideSub(data, p) ==
    \E s \in Subnegotiations(data) : s < p /\ p <= SubEndOf(data, s)

\* the fixed policy table of the claim
FixedTable(cmd, opt) ==
    CASE cmd = 253 /\ opt = 24 -> <<255, 251, 24>>
      [] cmd = 253 /\ opt = 31 -> <<255, 251, 31, 255, 250, 31, 0, 80, 0, 24, 255, 240>>
      [] cmd = 253 /\ opt = 1  -> <<255, 252, 1>>
      [] cmd = 253 /\ opt \notin {24, 31, 1} -> <<255, 252, opt>>
      [] cmd = 251 /\ opt = 3  -> <<255, 253, 3>>
      [] cmd = 251 /\ opt = 1  -> <<255, 253, 1>>
      [] cmd = 251 /\ opt \notin {3, 1} -> <<255, 254, opt>>

\* the only answer to a subnegotiation: TERMINAL-TYPE IS "ansi"
TermTypeAnswer(data, s) ==
    IF data[s + 2] = 24 /\ s + 3 <= Len(data) /\ data[s + 3] = 1
    THEN <<255, 250, 24, 0, 97, 110, 115, 105, 255, 240>>
    ELSE <<>>

\* one reply per unit, in the order of the units
ExpectedReplies(data) ==
    Flatten([p \in 1..Len(data) |->
        IF p \in Requests(data) THEN FixedTable(data[p + 1], data[p + 2])
        ELSE IF p \in Subnegotiations(data) THEN TermTypeAnswer(data, p)
        ELSE <<>>])

-----------------------------------------------------------------------------
(* C1: whatever chunks came before, the reply buffer of a chunk holds, in   *)
(* the order of the requests, exactly one reply of the fixed table for      *)
(* every IAC DO <opt> and IAC WILL <opt> triple that lies wholly inside the *)
(* chunk and outside a subnegotiation (and the terminal-type answer of a    *)
(* subnegotiation, nothing else).  A triple counts where the scan stands:   *)
(* bytes that are the option of a request belong to that request.          *)
C1_FixedTableReplies ==
    negPc = "replied" =>
    /\ responses = ExpectedReplies(negData)
    /\ \A p \in 1..Len(negData) :
          IsRequestAt(negData, p) /\ ~InsideSub(negData, p)
          /\ ~(p - 2 \in Requests(negData))
             => p \in Requests(negData)

\* a chunk whose two requests (DO NAWS, WILL ECHO) are both answered, in order
C1_Witness ==
    /\ negPc = "replied"
    /\ negData = <<255, 253, 31, 255, 251, 1>>
    /\ responses = <<255, 251, 31, 255, 250, 31, 0, 80, 0, 24, 255, 240,
                     255, 253, 1>>

-----------------------------------------------------------------------------
(* C2: a subnegotiation IAC SB <opt> ... IAC SE contained in the chunk is   *)
(* answered only when opt is TERMINAL-TYPE and its first data byte is SEND, *)
(* and then with exactly IAC SB TERMINAL-TYPE IS "ansi" IAC SE; no byte     *)
(* from SB to the matching IAC SE is read as a request, and scanning        *)
(* resumes right after IAC SE: the reply buffer is the replies to the bytes *)
(* before the subnegotiation, then its answer, then the replies to the      *)
(* bytes after its IAC SE.                                                  *)
C2_SubnegotiationSkipped ==
    negPc = "replied" =>
    \A s \in Subnegotiations(negData) :
        MatchingSE(negData, s) # {} =>
            LET e == SubEndOf(negData, s)
                answer ==
                    IF negData[s + 2] = 24 /\ negData[s + 3] = 1
                    THEN <<255, 250, 24, 0, 97, 110, 115, 105, 255, 240>>
                    ELSE <<>>
            IN  responses =
                    handleTelnetNegotiation(SubSeq(negData, 1, s - 1))
                    \o answer
                    \o handleTelnetNegotiation(SubSeq(negData, e + 1, Len(negData)))

\* SB TERMINAL-TYPE SEND with an IAC DO ECHO among its data bytes: the only
\* reply is the terminal type
C2_Witness ==
    /\ negPc = "replied"
    /\ negData = <<255, 250, 24, 1, 255, 253, 1, 255, 240>>
    /\ responses = <<255, 250, 24, 0, 97, 110, 115, 105, 255, 240>>

-----------------------------------------------------------------------------
(* C3: for every chunk received from the MUD the proxy first writes the    *)
(* chunk's negotiation reply (when it is not empty) to the MUD socket and  *)
(* then relays the chunk to the browser when the WebSocket is open; the    *)
(* calls of chunk N all come before those of chunk N+1; and the relayed    *)
(* bytes are exactly the bytes received.                                   *)
DataHandlerCalls == SelectSeq(mudLog, LAMBDA c : c.chunk > 0)

C3_ReplyBeforeRelay ==
    DataHandlerCalls =
        Flatten([n \in 1..Len(received) |->
            (IF handleTelnetNegotiation(received[n].bytes) # <<>>
             THEN <<[op |-> "mud.write", chunk |-> n,
                     bytes |-> handleTelnetNegotiation(received[n].bytes)]>>
             ELSE <<>>)
            \o (IF received[n].ready = "OPEN"
                THEN <<[op |-> "ws.send", chunk |-> n, bytes |-> received[n].bytes]>>
                ELSE <<>>)])

\* two chunks with a reply each, both relayed with their IAC bytes
C3_Witness ==
    /\ Len(received) = 2
    /\ received[1].bytes = <<255, 253, 24>> /\ received[2].bytes = <<72, 255, 253, 31, 10>>
    /\ DataHandlerCalls =
         << [op |-> "mud.write", chunk |-> 1, bytes |-> <<255, 251, 24>>],
            [op |-> "ws.send", chunk |-> 1, bytes |-> <<255, 253, 24>>],
            [op |-> "mud.write", chunk |-> 2,
             bytes |-> <<255, 251, 31, 255, 250, 31, 0, 80, 0, 24, 255, 240>>],
            [op |-> "ws.send", chunk |-> 2, bytes |-> <<72, 255, 253, 31, 10>>] >>

-----------------------------------------------------------------------------
(* What the claims about MUD2Protocol.parse speak of, stated on the bytes  *)

\* the passes of the last parse call: each with the index the scan stood at
LastParse == ParseTrace(ParseStart(Session(prevMode, prevStats)), pData)

\* the local variables and session before pass k of trace tr
Before(tr, k) ==
    IF k = 1 THEN ParseStart(Session(prevMode, prevStats)) ELSE tr[k - 1].after

\* the stats-record header lies at index i
HeaderAt(data, i) ==
    /\ i + 3 <= Len(data)
    /\ SubSeq(data, i, i + 3) = <<167, 163, 156, 255>>

\* the first CR or LF after the header at i, or one past the end
RecordStop(data, i) ==
    SetMin({j \in (i + 4)..Len(data) : data[j] \in {10, 13}} \cup {Len(data) + 1})

\* the text collected after the header at i: bytes >= 155 left out
RecordText(data, i) ==
    SelectSeq(SubSeq(data, i + 4, RecordStop(data, i) - 1), LAMBDA b : b < 155)

\* the places where an integer token of text starts
TokenStarts(text) ==
    {a \in 1..Len(text) :
        text[a] \in 48..57 /\ (a = 1 \/ text[a - 1] \notin 48..57)}

\* the value of the integer token that starts at a: its digits read in base 10
RECURSIVE TokenValue(_, _, _)
TokenValue(text, a, acc) ==
    IF a <= Len(text) /\ text[a] \in 48..57
    THEN TokenValue(text, a + 1, acc * 10 + (text[a] - 48))
    ELSE acc

\* the value of the n-th integer token of text
Integer(text, n) ==
    LET a == CHOOSE x \in TokenStarts(text) :
                 Cardinality({y \in TokenStarts(text) : y < x}) = n - 1
    IN  TokenValue(text, a, 0)

IntegerCount(text) == Cardinality(TokenStarts(text))

\* the scan meets an acceptable record (9 integer tokens or more) at pass k
MeetsAccepted(tr, k) ==
    /\ HeaderAt(pData, tr[k].at)
    /\ IntegerCount(RecordText(pData, tr[k].at)) >= 9

\* the scan meets a record with fewer than 9 integer tokens at pass k
MeetsRejected(tr, k) ==
    /\ HeaderAt(pData, tr[k].at)
    /\ IntegerCount(RecordText(pData, tr[k].at)) < 9

-----------------------------------------------------------------------------
(* C5: when parse meets the header [167,163,156,255] and the text after it *)
(* up to the first CR or LF (bytes >= 155 skipped) holds at least 9        *)
(* integer tokens, the nine numeric fields are set, in the order stamina,  *)
(* maxStamina, strength, maxStrength, dexterity, maxDexterity, magic,      *)
(* maxMagic, score, to the first nine integers, the mode becomes GAME and  *)
(* onStatsUpdate fires exactly once for that record.                       *)
C5_RecordAccepted ==
    protoPc = "parsed" =>
    \A tr \in {LastParse} :
        /\ \A k \in 1..Len(tr) :
              MeetsAccepted(tr, k) =>
                 LET text == RecordText(pData, tr[k].at)
                     S == tr[k].after.session
                 IN  /\ S.stats.stamina = Integer(text, 1)
                     /\ S.stats.maxStamina = Integer(text, 2)
                     /\ S.stats.strength = Integer(text, 3)
                     /\ S.stats.maxStrength = Integer(text, 4)
                     /\ S.stats.dexterity = Integer(text, 5)
                     /\ S.stats.maxDexterity = Integer(text, 6)
                     /\ S.stats.magic = Integer(text, 7)
                     /\ S.stats.maxMagic = Integer(text, 8)
                     /\ S.stats.score = Integer(text, 9)
                     /\ S.mode = "GAME"
                     /\ S.notified = Append(Before(tr, k).session.notified, S.stats)
        /\ Len(notified) = Cardinality({k \in 1..Len(tr) : MeetsAccepted(tr, k)})

\* a first message: header, "1 2 3 4 5 6 7 8 9", LF
C5_Witness ==
    /\ protoPc = "parsed" /\ prevMode = "TELNET"
    /\ pData = <<167, 163, 156, 255, 49, 32, 50, 32, 51, 32, 52, 32, 53, 32,
                 54, 32, 55, 32, 56, 32, 57, 10>>
    /\ stats.stamina = 1 /\ stats.strength = 3 /\ stats.dexterity = 5
    /\ stats.score = 9 /\ mode = "GAME" /\ Len(notified) = 1
    /\ cleanData = <<10>>

-----------------------------------------------------------------------------
(* C7: a stats record whose collected text has fewer than 9 integer tokens *)
(* is rejected as a whole: every GameStats field keeps its value, the mode *)
(* is not changed by the record and onStatsUpdate does not fire for it.    *)
C7_RecordRejected ==
    protoPc = "parsed" =>
    \A tr \in {LastParse} :
        \A k \in 1..Len(tr) :
            MeetsRejected(tr, k) =>
                /\ tr[k].after.session.stats = Before(tr, k).session.stats
                /\ tr[k].after.session.mode = Before(tr, k).session.mode
                /\ tr[k].after.session.notified = Before(tr, k).session.notified
                /\ tr[k].after.session.modeEvents = Before(tr, k).session.modeEvents

\* header, "1 2 3 Y S", LF arriving in a session whose stats are set: nothing changes
C7_Witness ==
    /\ protoPc = "parsed" /\ protoCalls = 2
    /\ pData = <<167, 163, 156, 255, 49, 32, 50, 32, 51, 32, 89, 32, 83, 10>>
    /\ prevStats.score = 9 /\ ~prevStats.blind /\ prevStats.weather = ""
    /\ stats = prevStats /\ mode = prevMode /\ notified = <<>>

-----------------------------------------------------------------------------
(* C8: a parse call whose input holds no accepted stats record, whatever   *)
(* vendor codes, ESC-dash sequences or plain bytes it holds, leaves every  *)
(* GameStats field unchanged and fires no onStatsUpdate.                   *)
C8_StatsFrame ==
    protoPc = "parsed" =>
    \A tr \in {LastParse} :
        (\A k \in 1..Len(tr) : ~MeetsAccepted(tr, k))
            => stats = prevStats /\ notified = <<>>

\* a vendor code and ESC - R arriving in a session whose stats are set
C8_Witness ==
    /\ protoPc = "parsed" /\ protoCalls = 2
    /\ pData = <<200, 65, 255, 27, 45, 82>>
    /\ Len(commands) = 2
    /\ prevStats.score = 9 /\ stats = prevStats /\ notified = <<>>

-----------------------------------------------------------------------------
(* C4: ConnectionMode only moves forward in the order TELNET -> CLIENT ->  *)
(* GAME: over any sequence of parse calls on any bytes, the mode never     *)
(* goes from GAME back to CLIENT or TELNET, nor from CLIENT back to TELNET.*)
ModeRank(m) == CASE m = "TELNET" -> 0 [] m = "CLIENT" -> 1 [] m = "GAME" -> 2

C4_ModeNeverRegresses == [][ModeRank(mode') >= ModeRank(mode)]_vars

\* ESC - C arrives in a session that is in GAME, and the session is in CLIENT
C4_Regressed ==
    /\ protoPc = "parsed" /\ pData = <<27, 45, 67>>
    /\ prevMode = "GAME" /\ mode = "CLIENT"

-----------------------------------------------------------------------------
(* C6: an accepted stats record replaces GameStats: two sessions with      *)
(* different prior GameStats that receive the same accepted record agree   *)
(* on all fourteen fields afterwards; no field keeps an earlier value.     *)

\* the GameStats of a second session, which has received the record
\* "2 2 2 2 2 2 2 2 2 Y Y Y Y 3 r" and nothing else
TwinStats ==
    parse(Session("TELNET", InitStats),
          <<167, 163, 156, 255, 50, 32, 50, 32, 50, 32, 50, 32, 50, 32, 50, 32,
            50, 32, 50, 32, 50, 32, 89, 32, 89, 32, 89, 32, 89, 32, 51, 32,
            114, 10>>).session.stats

C6_RecordReplacesAllFields ==
    protoPc = "parsed" =>
    \A tr \in {LastParse} :
        (\E k \in 1..Len(tr) : MeetsAccepted(tr, k))
            => parse(Session(prevMode, TwinStats), pData).session.stats = stats

\* a new session has received header, "1 2 3 4 5 6 7 8 9", LF: it is not blind
\* and has no weather, while the second session is still blind in the rain
C6_StaleFields ==
    /\ protoPc = "parsed" /\ protoCalls = 1
    /\ pData = <<167, 163, 156, 255, 49, 32, 50, 32, 51, 32, 52, 32, 53, 32,
                 54, 32, 55, 32, 56, 32, 57, 10>>
    /\ stats.score = 9 /\ ~stats.blind /\ stats.weather = ""
    /\ \E T \in {parse(Session(prevMode, TwinStats), pData).session.stats} :
           T.score = 9 /\ T.blind /\ T.weather = "raining"

-----------------------------------------------------------------------------
(* C9: for a byte b in 155..254 at index i that does not start a stats     *)
(* header, if none of the 20 bytes after it (or fewer at the chunk's end)  *)
(* is 0xFF, then no command is emitted for b, b is appended unchanged to   *)
(* the clean output and scanning continues at i+1.                         *)
NoTerminatorWithin20(data, i) ==
    \A j \in (i + 1)..(i + 20) : j <= Len(data) => data[j] # 255

C9_UnterminatedPassedThrough ==
    protoPc = "parsed" =>
    \A tr \in {LastParse} :
        \A k \in 1..Len(tr) :
            LET i == tr[k].at
            IN  (/\ pData[i] \in 155..254
                 /\ ~HeaderAt(pData, i)
                 /\ NoTerminatorWithin20(pData, i))
                => /\ tr[k].after.commands = Before(tr, k).commands
                   /\ tr[k].after.cleanBytes = Append(Before(tr, k).cleanBytes, pData[i])
                   /\ tr[k].after.i = i + 1

\* byte 200, twenty bytes 'a', then 0xFF at distance 21: consumed as a command
C9_ConsumedAtDistance21 ==
    /\ protoPc = "parsed"
    /\ pData = <<200>> \o [k \in 1..20 |-> 97] \o <<255>>
    /\ Len(commands) = 1 /\ cleanData = <<>>

-----------------------------------------------------------------------------
(* C10: a terminated vendor sequence is classified by its first byte alone,*)
(* whatever lies between it and the terminator: 155 promptStart, 156 blue, *)
(* 158 cyan, 159 magenta, 160 red, 161 magic, 162 combat, 163 event, 164   *)
(* yellow, 170 dreamword, 250 clientModeStart; 157 gives green and leaves  *)
(* the mode alone, except that 157 immediately followed by 156 gives the   *)
(* bright green and sets the mode to GAME.                                 *)
ClassifiedFirstBytes == (155..164) \cup {170, 250}

\* the colour name of a colour command, the type of any other command
Classification(cmd) == IF cmd.type = "color" THEN cmd.fg ELSE cmd.type

\* the classification by first byte b, second being the byte after it
Classified(b, second) ==
    CASE b = 155 -> "promptStart"
      [] b = 156 -> "blue"
      [] b = 157 -> IF second = 156 THEN "lightgreen" ELSE "green"
      [] b = 158 -> "cyan"
      [] b = 159 -> "magenta"
      [] b = 160 -> "red"
      [] b = 161 -> "magic"
      [] b = 162 -> "combat"
      [] b = 163 -> "event"
      [] b = 164 -> "yellow"
      [] b = 170 -> "dreamword"
      [] b = 250 -> "clientModeStart"

\* the first 0xFF after index i, or one past the end when there is none
TerminatorAfter(data, i) ==
    SetMin({j \in (i + 1)..Len(data) : data[j] = 255} \cup {Len(data) + 1})

C10_ClassifiedByFirstByte ==
    protoPc = "parsed" =>
    \A tr \in {LastParse} :
        \A k \in 1..Len(tr) :
            LET i == tr[k].at
                t == TerminatorAfter(pData, i)
                B == Before(tr, k)
                A == tr[k].after
            IN  (pData[i] \in ClassifiedFirstBytes /\ ~HeaderAt(pData, i)) =>
                  \* terminated within the bound: the sequence is consumed
                  /\ (t <= Len(pData) /\ t - i <= 20) => A.i = t + 1
                  \* consumed: one command, by the first byte
                  /\ A.i # i + 1 =>
                        /\ A.i = t + 1
                        /\ A.cleanBytes = B.cleanBytes
                        /\ Len(A.commands) = Len(B.commands) + 1
                        /\ SubSeq(A.commands, 1, Len(B.commands)) = B.commands
                        /\ Classification(A.commands[Len(A.commands)])
                               = Classified(pData[i], pData[i + 1])
                        /\ A.session.stats = B.session.stats
                        /\ A.session.mode =
                              IF pData[i] = 157 /\ pData[i + 1] = 156
                              THEN "GAME" ELSE B.session.mode

\* 157 156 'a' 0xFF as a first message: bright green, and the mode is GAME
C10_Witness ==
    /\ protoPc = "parsed" /\ prevMode = "TELNET"
    /\ pData = <<157, 156, 97, 255>>
    /\ commands = <<[type |-> "color", fg |-> "lightgreen"]>>
    /\ mode = "GAME" /\ cleanData = <<>>

-----------------------------------------------------------------------------
(* C11: a terminated vendor sequence starting with 167 yields the fesStart *)
(* marker only when its next two bytes are 163 and 156; a sequence         *)
(* starting with 167 and anything else, and a sequence starting with any   *)
(* byte outside {155..164, 167, 170, 250, 254}, yields Unknown{code} with  *)
(* code equal to the first byte.                                           *)
KnownFirstBytes == (155..164) \cup {167, 170, 250, 254}

\* pass k of tr consumed a vendor sequence that starts at the pass's index
ConsumedVendorAt(tr, k) ==
    /\ pData[tr[k].at] \in 155..254
    /\ ~HeaderAt(pData, tr[k].at)
    /\ tr[k].after.i # tr[k].at + 1

C11_FesStartOrUnknown ==
    protoPc = "parsed" =>
    \A tr \in {LastParse} :
        \A k \in 1..Len(tr) :
            LET i == tr[k].at
                B == Before(tr, k)
                A == tr[k].after
            IN  (ConsumedVendorAt(tr, k)
                    /\ (pData[i] = 167 \/ pData[i] \notin KnownFirstBytes)) =>
                  /\ Len(A.commands) = Len(B.commands) + 1
                  /\ A.commands[Len(A.commands)] =
                        IF /\ pData[i] = 167 /\ i + 2 <= Len(pData)
                           /\ pData[i + 1] = 163 /\ pData[i + 2] = 156
                        THEN [type |-> "fesStart"]
                        ELSE [type |-> "unknown", code |-> pData[i]]

\* 167 'a' 0xFF: the command is the colour white, not Unknown{167}
C11_WhiteFor167 ==
    /\ protoPc = "parsed"
    /\ pData = <<167, 97, 255>>
    /\ commands = <<[type |-> "color", fg |-> "white"]>>

-----------------------------------------------------------------------------
(* C12: a terminated vendor sequence starting with 254 yields ColorDirect  *)
(* {fg = b1 - 155, bg = b2 - 155}, b1 and b2 being the two bytes that      *)
(* follow 254 and precede the 0xFF terminator; with fewer than two such    *)
(* bytes no ColorDirect is produced: the terminator is never a colour byte.*)
C12_ColorDirect ==
    protoPc = "parsed" =>
    \A tr \in {LastParse} :
        \A k \in 1..Len(tr) :
            LET i == tr[k].at
                t == TerminatorAfter(pData, i)
                B == Before(tr, k)
                A == tr[k].after
            IN  (ConsumedVendorAt(tr, k) /\ pData[i] = 254) =>
                  IF t - i >= 3
                  THEN /\ Len(A.commands) = Len(B.commands) + 1
                       /\ A.commands[Len(A.commands)] =
                             [type |-> "colorDirect", fg |-> pData[i + 1] - 155,
                              bg |-> pData[i + 2] - 155]
                  ELSE \A n \in (Len(B.commands) + 1)..Len(A.commands) :
                           A.commands[n].type # "colorDirect"

\* 254 'a' 0xFF: the terminator becomes the background, 255 - 155 = 100
C12_TerminatorAsBackground ==
    /\ protoPc = "parsed"
    /\ pData = <<254, 97, 255>>
    /\ commands = <<[type |-> "colorDirect", fg |-> 97 - 155, bg |-> 100]>>

-----------------------------------------------------------------------------
(* C13: for three bytes ESC, '-', code lying inside the chunk, parse       *)
(* consumes all three and emits: 'C' one ClearScreen and the mode set to   *)
(* CLIENT; 'R' ReverseOn; 'r' ReverseOff; 'K' ClearToEndOfLine; 'T' no     *)
(* command.  For any other code nothing is consumed as a command: the      *)
(* bytes go on through the normal scan and no ESC-dash command is emitted. *)
EscDashAt(data, i) ==
    /\ data[i] = 27 /\ i + 2 <= Len(data) /\ data[i + 1] = 45

\* the commands the five recognized codes emit
EscDashEmits(code) ==
    CASE code = 67 -> <<[type |-> "clear"]>>
      [] code = 82 -> <<[type |-> "reverse", value |-> TRUE]>>
      [] code = 114 -> <<[type |-> "reverse", value |-> FALSE]>>
      [] code = 75 -> <<[type |-> "clearLine"]>>
      [] code = 84 -> <<>>

C13_EscDash ==
    protoPc = "parsed" =>
    \A tr \in {LastParse} :
        \A k \in 1..Len(tr) :
            LET i == tr[k].at
                B == Before(tr, k)
                A == tr[k].after
            IN  EscDashAt(pData, i) =>
                  IF pData[i + 2] \in {67, 82, 114, 75, 84}
                  THEN /\ A.i = i + 3
                       /\ A.cleanBytes = B.cleanBytes
                       /\ A.commands = B.commands \o EscDashEmits(pData[i + 2])
                       /\ A.session.mode =
                             IF pData[i + 2] = 67 THEN "CLIENT" ELSE B.session.mode
                       /\ A.session.stats = B.session.stats
                  ELSE /\ A.i = i + 1
                       /\ A.cleanBytes = Append(B.cleanBytes, 27)
                       /\ A.commands = B.commands
                       /\ A.session = B.session

\* 'A' ESC - R 'B': ReverseOn, and the clean bytes are 'A' 'B'
C13_Witness ==
    /\ protoPc = "parsed"
    /\ pData = <<65, 27, 45, 82, 66>>
    /\ commands = <<[type |-> "reverse", value |-> TRUE]>>
    /\ cleanData = <<65, 66>> /\ mode = "TELNET"

-----------------------------------------------------------------------------
(* C14: the clean output of parse is an order-preserving subsequence of    *)
(* the input, and a byte is missing from it only if it belongs to a stats  *)
(* record, to a vendor sequence consumed as a command, or to a recognized  *)
(* ESC-dash triple; an input with no byte in 155..254 and no ESC byte is   *)
(* returned byte for byte, with no command and no change of mode or stats. *)
RECURSIVE IsSubsequence(_, _)
IsSubsequence(s, t) ==
    IF s = <<>> THEN TRUE
    ELSE IF t = <<>> THEN FALSE
    ELSE IF Head(s) = Head(t) THEN IsSubsequence(Tail(s), Tail(t))
    ELSE IsSubsequence(s, Tail(t))

\* the pass at index i, which ended at index next, removed a stats record (the
\* header and the text up to the CR or LF), a terminated vendor sequence or
\* a recognized ESC-dash triple
RemovedUnit(data, i, next) ==
    \/ HeaderAt(data, i) /\ next = RecordStop(data, i)
    \/ /\ data[i] \in 155..254
       /\ next = TerminatorAfter(data, i) + 1 /\ next <= Len(data) + 1
    \/ /\ EscDashAt(data, i) /\ data[i + 2] \in {67, 82, 114, 75, 84}
       /\ next = i + 3

C14_CleanOutput ==
    protoPc = "parsed" =>
    \A tr \in {LastParse} :
        /\ IsSubsequence(cleanData, pData)
        /\ \A k \in 1..Len(tr) :
              LET i == tr[k].at
                  B == Before(tr, k)
                  A == tr[k].after
              IN  \/ /\ A.cleanBytes = Append(B.cleanBytes, pData[i])
                     /\ A.i = i + 1
                  \/ /\ A.cleanBytes = B.cleanBytes
                     /\ RemovedUnit(pData, i, A.i)
        /\ (\A n \in 1..Len(pData) : pData[n] \notin (155..254) \cup {27})
              => /\ cleanData = pData /\ commands = <<>>
                 /\ mode = prevMode /\ stats = prevStats
                 /\ notified = <<>> /\ modeEvents = <<>>

\* 'H' 'i' arriving in a session in GAME whose stats are set
C14_Witness ==
    /\ protoPc = "parsed" /\ protoCalls = 2
    /\ pData = <<72, 105>> /\ cleanData = <<72, 105>> /\ commands = <<>>
    /\ prevMode = "GAME" /\ mode = "GAME"
    /\ prevStats.score = 9 /\ stats = prevStats

\* 'A' 200 'a' 0xFF 'B': the vendor sequence is gone from the clean output
C14_VendorRemoved ==
    /\ protoPc = "parsed"
    /\ pData = <<65, 200, 97, 255, 66>> /\ cleanData = <<65, 66>>

-----------------------------------------------------------------------------
(* What the claim about parseVisibleStats speaks of, stated on the text    *)

\* the characters [:\s] and the digits
SeparatorChars == {58, 9, 10, 11, 12, 13, 32, 160}
DigitChars == 48..57

\* the first index from q on whose character is not in set, or one past the end
PastRun(text, q, set) ==
    SetMin({x \in q..(Len(text) + 1) : x = Len(text) + 1 \/ text[x] \notin set})

\* the letters of word, in either case, lie at index p
WordAt(text, p, word) ==
    /\ p + Len(word) - 1 <= Len(text)
    /\ \A k \in 1..Len(word) : text[p + k - 1] \in {word[k], word[k] - 32}

\* where the numbers of a match at p start and stop: the first number is
\* text[a .. b-1], and text[b] is the slash of a pair
NumberStart(text, p, word) == PastRun(text, p + Len(word), SeparatorChars)
NumberStop(text, p, word) == PastRun(text, NumberStart(text, p, word), DigitChars)

\* the places where word, separators, digits, '/', digits lie in text
PairPlaces(text, word) ==
    {p \in 1..Len(text) :
        /\ WordAt(text, p, word)
        /\ NumberStop(text, p, word) > NumberStart(text, p, word)
        /\ NumberStop(text, p, word) <= Len(text)
        /\ text[NumberStop(text, p, word)] = 47
        /\ PastRun(text, NumberStop(text, p, word) + 1, DigitChars)
              > NumberStop(text, p, word) + 1}

\* the places where word, separators, digits lie in text
OnePlaces(text, word) ==
    {p \in 1..Len(text) :
        /\ WordAt(text, p, word)
        /\ NumberStop(text, p, word) > NumberStart(text, p, word)}

\* the numbers of the leftmost of the places
FirstNumber(text, places, word) ==
    TokenValue(text, NumberStart(text, SetMin(places), word), 0)
SecondNumber(text, places, word) ==
    TokenValue(text, NumberStop(text, SetMin(places), word) + 1, 0)

WeatherKeywords ==
    { <<"sunny", <<115, 117, 110, 110, 121>>>>,
      <<"cloudy", <<99, 108, 111, 117, 100, 121>>>>,
      <<"raining", <<114, 97, 105, 110, 105, 110, 103>>>>,
      <<"snowing", <<115, 110, 111, 119, 105, 110, 103>>>>,
      <<"foggy", <<102, 111, 103, 103, 121>>>>,
      <<"stormy", <<115, 116, 111, 114, 109, 121>>>> }

WeatherPlaces(text) ==
    {p \in 1..Len(text) : \E w \in WeatherKeywords : WordAt(text, p, w[2])}

\* the keyword at the leftmost of the places
FirstWeather(text) ==
    (CHOOSE w \in WeatherKeywords : WordAt(text, SetMin(WeatherPlaces(text)), w[2]))[1]

-----------------------------------------------------------------------------
(* C15: parseVisibleStats updates exactly the fields whose pattern matches *)
(* the text (Sta: stamina and maxStamina; Dex: dexterity and maxDexterity; *)
(* Str: strength and maxStrength; Mag: magic only; Pts: score; a weather   *)
(* keyword: weather) and leaves every other GameStats field and the mode   *)
(* unchanged; it returns true and fires onStatsUpdate exactly once when a  *)
(* pattern matched, and returns false with no notification and no change   *)
(* when none matched.                                                      *)
C15_VisibleStats ==
    visPc = "done" =>
    LET sta == PairPlaces(vText, <<115, 116, 97>>)
        dex == PairPlaces(vText, <<100, 101, 120>>)
        str == PairPlaces(vText, <<115, 116, 114>>)
        mag == OnePlaces(vText, <<109, 97, 103>>)
        pts == OnePlaces(vText, <<112, 116, 115>>)
        wth == WeatherPlaces(vText)
        any == sta \cup dex \cup str \cup mag \cup pts \cup wth # {}
    IN  /\ <<stats.stamina, stats.maxStamina>> =
              IF sta # {}
              THEN <<FirstNumber(vText, sta, <<115, 116, 97>>), SecondNumber(vText, sta, <<115, 116, 97>>)>>
              ELSE <<prevStats.stamina, prevStats.maxStamina>>
        /\ <<stats.dexterity, stats.maxDexterity>> =
              IF dex # {}
              THEN <<FirstNumber(vText, dex, <<100, 101, 120>>), SecondNumber(vText, dex, <<100, 101, 120>>)>>
              ELSE <<prevStats.dexterity, prevStats.maxDexterity>>
        /\ <<stats.strength, stats.maxStrength>> =
              IF str # {}
              THEN <<FirstNumber(vText, str, <<115, 116, 114>>), SecondNumber(vText, str, <<115, 116, 114>>)>>
              ELSE <<prevStats.strength, prevStats.maxStrength>>
        /\ stats.magic = IF mag # {} THEN FirstNumber(vText, mag, <<109, 97, 103>>)
                         ELSE prevStats.magic
        /\ stats.maxMagic = prevStats.maxMagic
        /\ stats.score = IF pts # {} THEN FirstNumber(vText, pts, <<112, 116, 115>>)
                         ELSE prevStats.score
        /\ stats.weather = IF wth # {} THEN FirstWeather(vText)
                           ELSE prevStats.weather
        /\ stats.blind = prevStats.blind /\ stats.deaf = prevStats.deaf
        /\ stats.crippled = prevStats.crippled /\ stats.dumb = prevStats.dumb
        /\ mode = prevMode /\ modeEvents = <<>>
        /\ vReturn = any
        /\ notified = IF any THEN <<stats>> ELSE <<>>
        /\ ~any => stats = prevStats

\* "Mag 9sunny" in a session in GAME with all numbers 2, in the rain
C15_Witness ==
    /\ visPc = "done" /\ prevMode = "GAME" /\ mode = "GAME"
    /\ vText = <<77, 97, 103, 32, 57, 115, 117, 110, 110, 121>>
    /\ prevStats.magic = 2 /\ prevStats.weather = "raining"
    /\ stats.magic = 9 /\ stats.maxMagic = 2 /\ stats.weather = "sunny"
    /\ stats.stamina = 2 /\ stats.blind
    /\ vReturn /\ Len(notified) = 1

\* "sta 4/ ": no pattern matches, nothing changes and the result is false
C15_NoMatch ==
    /\ visPc = "done" /\ vText = <<115, 116, 97, 32, 52, 47, 32>>
    /\ ~vReturn /\ notified = <<>> /\ stats = prevStats

-----------------------------------------------------------------------------
(* What the claims about ANSIParser speak of *)

\* the variables of filterTelnet before pass k of trace tr
FilterBefore(tr, k) == IF k = 1 THEN FilterStart ELSE tr[k - 1].after

\* the places from index j on where IAC SE lies
SEPlaces(data, j) ==
    {x \in j..(Len(data) - 1) : data[x] = 255 /\ data[x + 1] = 240}

-----------------------------------------------------------------------------
(* C16: filterTelnet keeps every non-IAC byte outside a telnet sequence,   *)
(* in order, and removes telnet sequences: IAC IAC yields one literal      *)
(* 0xFF; IAC followed by DO, DONT, WILL or WONT removes exactly 3 bytes;   *)
(* IAC SB ... IAC SE removes the whole span through SE; IAC followed by    *)
(* any other command byte removes exactly 2 bytes.                         *)
C16_FilterTelnet ==
    ansiPc = "done" =>
    \A tr \in {FilterTrace(FilterStart, aData)} :
        /\ filtered = IF tr = <<>> THEN <<>> ELSE tr[Len(tr)].after.result
        /\ \A k \in 1..Len(tr) :
              LET i == tr[k].at
                  B == FilterBefore(tr, k)
                  A == tr[k].after
              IN  /\ aData[i] # 255 =>
                        A.result = Append(B.result, aData[i]) /\ A.i = i + 1
                  /\ (aData[i] = 255 /\ i + 1 <= Len(aData)) =>
                        CASE aData[i + 1] = 255 ->
                                A.result = Append(B.result, 255) /\ A.i = i + 2
                          [] aData[i + 1] \in 251..254 /\ i + 2 <= Len(aData) ->
                                A.result = B.result /\ A.i = i + 3
                          [] aData[i + 1] = 250 /\ SEPlaces(aData, i + 2) # {} ->
                                /\ A.result = B.result
                                /\ A.i = SetMin(SEPlaces(aData, i + 2)) + 2
                          [] aData[i + 1] \in 240..249 ->
                                A.result = B.result /\ A.i = i + 2
                          [] OTHER -> TRUE

\* IAC SB 24 1 IAC SE 'a': only the 'a' is left, and it is the one segment
C16_Witness ==
    /\ ansiPc = "done"
    /\ aData = <<255, 250, 24, 1, 255, 240, 97>>
    /\ filtered = <<97>>
    /\ segments = <<[text |-> <<97>>, fg |-> "#aaaaaa", bg |-> "#000000"]>>

\* IAC DO 3 'A': the three bytes of the request are removed
C16_RequestRemoved ==
    /\ ansiPc = "done" /\ aData = <<255, 253, 3, 65>> /\ filtered = <<65>>

-----------------------------------------------------------------------------
(* C17: protocol replies carry no payload: for every input chunk the reply *)
(* buffer of handleTelnetNegotiation, for every width and height the bytes *)
(* of getNAWS(w, h), and the bytes of getTerminalType('ansi') pass through *)
(* the decoder's telnet-stripping pass to the empty string, so parse of    *)
(* them emits no segment.                                                  *)
C17_RepliesCarryNoPayload ==
    ansiPc = "done" =>
        /\ aSource.kind = "neg" => aData = handleTelnetNegotiation(aSource.chunk)
        /\ aSource.kind = "naws" => aData = getNAWS(aSource.width, aSource.height)
        /\ aSource.kind = "ttype" => aData = getTerminalType(<<97, 110, 115, 105>>)
        /\ aSource.kind \in {"neg", "naws", "ttype"} =>
              filtered = <<>> /\ segments = <<>> /\ Attrs = prevAttrs

\* getNAWS(255, 240): an IAC and an SE among the size bytes, and nothing is left
C17_Witness ==
    /\ ansiPc = "done"
    /\ aSource = [kind |-> "naws", width |-> 255, height |-> 240]
    /\ aData = <<255, 250, 31, 0, 255, 0, 240, 255, 240>>
    /\ filtered = <<>> /\ segments = <<>>

\* the reply to IAC DO 31: two sequences, and nothing is left
C17_NegotiatorReply ==
    /\ ansiPc = "done"
    /\ aSource = [kind |-> "neg", chunk |-> <<255, 253, 31>>]
    /\ aData = <<255, 251, 31, 255, 250, 31, 0, 80, 0, 24, 255, 240>>
    /\ filtered = <<>> /\ segments = <<>>

-----------------------------------------------------------------------------
(* C18: parseSGR applies the codes of a ';'-separated list left to right,  *)
(* each changing only the attribute it names: 1 bold on; 22 bold off; 7    *)
(* reverse on; 27 reverse off; 30..37 foreground 0..7; 39 foreground 7;    *)
(* 40..47 background 0..7; 49 background 0; 90..97 foreground 8..15; 0 all *)
(* four attributes to defaults.  Any other code, and any non-numeric item, *)
(* changes nothing and raises no error.                                    *)

\* the items of a ';'-separated list: the stretches between the separators
ListItems(params) ==
    LET cuts == <<0>> \o SelectSeq([k \in 1..Len(params) |->
                                       IF params[k] = 59 THEN k ELSE 0],
                                   LAMBDA x : x # 0)
                      \o <<Len(params) + 1>>
    IN  [n \in 1..(Len(cuts) - 1) |-> SubSeq(params, cuts[n] + 1, cuts[n + 1] - 1)]

\* an item is numeric when it is a non-empty string of digits
IsNumeric(item) == item # <<>> /\ \A k \in 1..Len(item) : item[k] \in 48..57

\* what the table says one code does to the attributes
CodeEffect(a, code) ==
    IF code = 0 THEN [foreground |-> 7, background |-> 0, bold |-> FALSE,
                      reverse |-> FALSE]
    ELSE IF code = 1 THEN [a EXCEPT !.bold = TRUE]
    ELSE IF code = 22 THEN [a EXCEPT !.bold = FALSE]
    ELSE IF code = 7 THEN [a EXCEPT !.reverse = TRUE]
    ELSE IF code = 27 THEN [a EXCEPT !.reverse = FALSE]
    ELSE IF code \in 30..37 THEN [a EXCEPT !.foreground = code - 30]
    ELSE IF code = 39 THEN [a EXCEPT !.foreground = 7]
    ELSE IF code \in 40..47 THEN [a EXCEPT !.background = code - 40]
    ELSE IF code = 49 THEN [a EXCEPT !.background = 0]
    ELSE IF code \in 90..97 THEN [a EXCEPT !.foreground = code - 90 + 8]
    ELSE a

\* the items applied left to right, the non-numeric ones changing nothing
RECURSIVE ListEffect(_, _)
ListEffect(a, items) ==
    IF items = <<>> THEN a
    ELSE ListEffect(IF IsNumeric(Head(items))
                    THEN CodeEffect(a, TokenValue(Head(items), 1, 0))
                    ELSE a,
                    Tail(items))

\* (the empty parameter string is the subject of C19)
C18_CodesLeftToRight ==
    (ansiPc = "done" /\ sgrParams # <<>>) =>
        Attrs = ListEffect(prevAttrs, ListItems(sgrParams))

\* the same, for the lists all of whose items are numeric or without a digit
\* in front
C18_CleanItemsLeftToRight ==
    (/\ ansiPc = "done" /\ sgrParams # <<>>
     /\ \A n \in 1..Len(ListItems(sgrParams)) :
           \/ IsNumeric(ListItems(sgrParams)[n])
           \/ ListItems(sgrParams)[n] = <<>>
           \/ ListItems(sgrParams)[n][1] \notin 48..57) =>
        Attrs = ListEffect(prevAttrs, ListItems(sgrParams))

\* "1?" handed to a new parser: the item is not a number, and bold is on
C18_BoldFromNonNumericItem ==
    /\ ansiPc = "done" /\ ansiCalls = 1
    /\ sgrParams = <<49, 63>>
    /\ bold /\ ~prevAttrs.bold

-----------------------------------------------------------------------------
(* C19: whatever the attribute state reached by any prior sequence of SGR  *)
(* codes, an SGR sequence whose parameter string is empty, is "0", or ends *)
(* with code 0 leaves the state exactly {foreground 7, background 0, bold  *)
(* false, reverse false}; applying it twice gives the same as once.        *)
LastItem(params) == ListItems(params)[Len(ListItems(params))]

EndsWithCodeZero(params) ==
    IsNumeric(LastItem(params)) /\ TokenValue(LastItem(params), 1, 0) = 0

C19_ResetToDefaults ==
    (/\ ansiPc = "done"
     /\ \/ sgrParams = <<>> \/ sgrParams = <<48>> \/ EndsWithCodeZero(sgrParams)) =>
        /\ foreground = 7 /\ background = 0 /\ ~bold /\ ~reverse
        /\ parseSGR(Attrs, sgrParams) = Attrs

\* "7;00" after "1;31": bold red before, the defaults after
C19_Witness ==
    /\ ansiPc = "done" /\ ansiCalls = 2
    /\ prevAttrs = [foreground |-> 1, background |-> 0, bold |-> TRUE,
                    reverse |-> FALSE]
    /\ sgrParams = <<55, 59, 48, 48>>
    /\ foreground = 7 /\ background = 0 /\ ~bold /\ ~reverse

\* the empty string after "7;44": reverse on blue before, the defaults after
C19_EmptyString ==
    /\ ansiPc = "done" /\ ansiCalls = 2
    /\ prevAttrs.reverse /\ prevAttrs.background = 4
    /\ sgrParams = <<>>
    /\ foreground = 7 /\ background = 0 /\ ~bold /\ ~reverse

-----------------------------------------------------------------------------
(* C20: display attributes persist across ANSIParser.parse calls: the      *)
(* attribute state at the start of call N+1 equals the state at the end of *)
(* call N, and no input other than an SGR sequence (text, newline, bell,   *)
(* cursor and erase sequences, telnet bytes, end of chunk) changes         *)
(* foreground, background, bold or reverse.                                *)

\* an SGR sequence lies at index i of str: ESC [, parameter characters, 'm'
SGRAt(str, i) ==
    /\ str[i] = 27 /\ i + 1 <= Len(str) /\ str[i + 1] = 91
    /\ PastRun(str, i + 2, 48..63) <= Len(str)
    /\ str[PastRun(str, i + 2, 48..63)] = 109

C20_AttributesPersist ==
    [][ /\ ansiPc' = "recv" => Attrs' = Attrs
        /\ ansiPc' = "done" =>
              \A tr \in {AnsiTrace(AnsiStart(Attrs), filtered')} :
                 /\ \A k \in 1..Len(tr) :
                       ~SGRAt(filtered', tr[k].at) =>
                          tr[k].after.attrs =
                             IF k = 1 THEN Attrs ELSE tr[k - 1].after.attrs
                 /\ Attrs' = IF tr = <<>> THEN Attrs ELSE tr[Len(tr)].after.attrs
                 /\ (\A k \in 1..Len(tr) : ~SGRAt(filtered', tr[k].at))
                       => Attrs' = Attrs
                 /\ (\A n \in 1..Len(aData') : aData'[n] # 27) => Attrs' = Attrs
      ]_vars

\* 'a' after ESC [ 31 ; 44 m: the second call starts red on blue, stays so,
\* and its text carries the two colours
C20_Witness ==
    /\ ansiPc = "done" /\ ansiCalls = 2
    /\ aData = <<97>>
    /\ prevAttrs = [foreground |-> 1, background |-> 4, bold |-> FALSE,
                    reverse |-> FALSE]
    /\ Attrs = prevAttrs
    /\ segments = <<[text |-> <<97>>, fg |-> "#aa0000", bg |-> "#0000aa"]>>

\* ESC [ 1 m, ESC [ 2 J: bold from the SGR sequence, kept over the erase
C20_EraseKeepsBold ==
    /\ ansiPc = "done" /\ ansiCalls = 1
    /\ aData = <<27, 91, 49, 109, 27, 91, 50, 74>>
    /\ bold /\ segments = <<[clear |-> "screen"]>>


-----------------------------------------------------------------------------
(* C21: after any sequence of ANSIParser.parse calls the foreground index  *)
(* is in 0..15 and the background index in 0..7, so the foreground made    *)
(* bright by bold never exceeds 15 and every Text segment gets a colour of *)
(* the 16-entry palette.                                                   *)

\* the sixteen colours of the palette
Palette == {colors[n] : n \in 0..15}

\* the segments that carry text
IsText(seg) == "text" \in DOMAIN seg

C21_IndexesInRange ==
    /\ foreground \in 0..15
    /\ background \in 0..7
    /\ BrightForeground(Attrs) \in 0..15
    /\ \A k \in 1..Len(segments) :
          IsText(segments[k]) =>
             segments[k].fg \in Palette /\ segments[k].bg \in Palette

\* ESC [ 1 ; 97 m, 'a': bold on the brightest foreground, index 15 kept
C21_Witness ==
    /\ ansiPc = "done" /\ ansiCalls = 1
    /\ aData = <<27, 91, 49, 59, 57, 55, 109, 97>>
    /\ foreground = 15 /\ bold
    /\ segments = <<[text |-> <<97>>, fg |-> "#ffffff", bg |-> "#000000"]>>

\* ESC [ 100 m, 'a': the bright background code is not known and the
\* background stays 0
C21_BrightBackgroundIgnored ==
    /\ ansiPc = "done" /\ ansiCalls = 1
    /\ aData = <<27, 91, 49, 48, 48, 109, 97>>
    /\ background = 0
    /\ segments = <<[text |-> <<97>>, fg |-> "#aaaaaa", bg |-> "#000000"]>>


-----------------------------------------------------------------------------
(* C22: every Text segment carries the colours of the attribute state in   *)
(* effect while its characters were received: with f the foreground index, *)
(* plus 8 when bold is on and the index is below 8, a segment that is not  *)
(* reversed has fg = palette[f] and bg = palette[background] and a         *)
(* reversed one has fg = palette[background] and bg = palette[f]; an SGR   *)
(* sequence after the characters of a run never changes that run's         *)
(* colours, and all characters of one Text segment were received under the *)
(* same attribute state.                                                   *)

\* the passes of the scan of the last parse call
LastAnsi == AnsiTrace(AnsiStart(prevAttrs), filtered)

\* the variables of the scan before pass k of trace tr
AnsiBefore(tr, k) == IF k = 1 THEN AnsiStart(prevAttrs) ELSE tr[k - 1].after

\* the variables of the scan when the loop is left
AnsiLast(tr) == IF tr = <<>> THEN AnsiStart(prevAttrs) ELSE tr[Len(tr)].after

\* the segments that pass k adds
AddedBy(tr, k) ==
    SubSeq(tr[k].after.segments, Len(AnsiBefore(tr, k).segments) + 1,
           Len(tr[k].after.segments))

\* the Text segment of a run under attribute state a
RunSegment(run, a) ==
    LET f == IF a.bold /\ a.foreground < 8 THEN a.foreground + 8
             ELSE a.foreground
    IN  IF a.reverse
        THEN [text |-> run, fg |-> colors[a.background], bg |-> colors[f]]
        ELSE [text |-> run, fg |-> colors[f], bg |-> colors[a.background]]

C22_RunColours ==
    ansiPc = "done" =>
       \A tr \in {LastAnsi} :
          /\ \A k \in 1..Len(tr) :
                LET B == AnsiBefore(tr, k)
                    A == tr[k].after
                    texts == {n \in 1..Len(AddedBy(tr, k)) :
                                 IsText(AddedBy(tr, k)[n])}
                IN  \* a Text segment is the pending run in the colours of
                    \* the state the run was received under
                    /\ \A n \in texts :
                          /\ n = 1 /\ B.buffer # <<>>
                          /\ AddedBy(tr, k)[n] = RunSegment(B.buffer, B.attrs)
                    \* a pending run either goes on under the same state or
                    \* is emitted by this pass
                    /\ B.buffer # <<>> =>
                          \/ /\ texts = {} /\ A.attrs = B.attrs
                             /\ Len(A.buffer) >= Len(B.buffer)
                             /\ SubSeq(A.buffer, 1, Len(B.buffer)) = B.buffer
                          \/ texts = {1}
                    \* a pass that changes the attributes leaves no run pending
                    /\ A.attrs # B.attrs => A.buffer = <<>>
          /\ segments =
                AnsiLast(tr).segments
                   \o (IF AnsiLast(tr).buffer = <<>> THEN <<>>
                       ELSE <<RunSegment(AnsiLast(tr).buffer, AnsiLast(tr).attrs)>>)

\* 'a', ESC [ 31 ; 44 m: the run before the SGR sequence keeps the default
\* colours, the attributes are red on blue afterwards
C22_Witness ==
    /\ ansiPc = "done" /\ ansiCalls = 1
    /\ aData = <<97, 27, 91, 51, 49, 59, 52, 52, 109>>
    /\ foreground = 1 /\ background = 4
    /\ segments = <<[text |-> <<97>>, fg |-> "#aaaaaa", bg |-> "#000000"]>>

\* ESC [ 7 ; 95 m, 'a': reversed, black on bright magenta
C22_Reversed ==
    /\ ansiPc = "done" /\ ansiCalls = 1
    /\ aData = <<27, 91, 55, 59, 57, 53, 109, 97>>
    /\ segments = <<[text |-> <<97>>, fg |-> "#000000", bg |-> "#ff55ff"]>>


-----------------------------------------------------------------------------
(* C23: Bell (0x07) and LF (0x0A) outside an escape sequence each first    *)
(* emit the pending text as a Text segment, when there is any, and then    *)
(* exactly one Bell or Newline segment, so no Text segment holds           *)
(* characters from both sides of a line feed or bell; CR (0x0D) emits no   *)
(* segment and does not end the text run it stands in.                     *)

\* the segments an emitted pending run makes: one Text segment or none
PendingText(B) ==
    IF B.buffer = <<>> THEN <<>> ELSE <<RunSegment(B.buffer, B.attrs)>>

\* how many segments of seq are equal to seg
RECURSIVE CountOf(_, _)
CountOf(seq, seg) ==
    IF seq = <<>> THEN 0
    ELSE (IF Head(seq) = seg THEN 1 ELSE 0) + CountOf(Tail(seq), seg)

C23_BellNewlineCarriageReturn ==
    ansiPc = "done" =>
       \A tr \in {LastAnsi} :
          /\ \A k \in 1..Len(tr) :
                LET B == AnsiBefore(tr, k)
                    A == tr[k].after
                    c == filtered[tr[k].at]
                IN  /\ c = 7 =>
                          /\ AddedBy(tr, k) = PendingText(B) \o <<[bell |-> TRUE]>>
                          /\ A.buffer = <<>> /\ A.i = tr[k].at + 1
                    /\ c = 10 =>
                          /\ AddedBy(tr, k) = PendingText(B) \o <<[newline |-> TRUE]>>
                          /\ A.buffer = <<>> /\ A.i = tr[k].at + 1
                    /\ c = 13 =>
                          /\ AddedBy(tr, k) = <<>>
                          /\ A.buffer = B.buffer /\ A.i = tr[k].at + 1
          /\ CountOf(segments, [bell |-> TRUE])
                = Cardinality({k \in 1..Len(tr) : filtered[tr[k].at] = 7})
          /\ CountOf(segments, [newline |-> TRUE])
                = Cardinality({k \in 1..Len(tr) : filtered[tr[k].at] = 10})

\* 'a', LF, 'b': the text before the line feed, the Newline, the text after
C23_Witness ==
    /\ ansiPc = "done" /\ ansiCalls = 1
    /\ aData = <<97, 10, 98>>
    /\ segments = <<[text |-> <<97>>, fg |-> "#aaaaaa", bg |-> "#000000"],
                    [newline |-> TRUE],
                    [text |-> <<98>>, fg |-> "#aaaaaa", bg |-> "#000000"]>>

\* 'a', BEL, 'b'
C23_Bell ==
    /\ ansiPc = "done" /\ ansiCalls = 1
    /\ aData = <<97, 7, 98>>
    /\ segments = <<[text |-> <<97>>, fg |-> "#aaaaaa", bg |-> "#000000"],
                    [bell |-> TRUE],
                    [text |-> <<98>>, fg |-> "#aaaaaa", bg |-> "#000000"]>>

\* 'a', CR, 'b': one run
C23_CarriageReturn ==
    /\ ansiPc = "done" /\ ansiCalls = 1
    /\ aData = <<97, 13, 98>>
    /\ segments = <<[text |-> <<97, 98>>, fg |-> "#aaaaaa", bg |-> "#000000"]>>


-----------------------------------------------------------------------------
(* C24: a complete CSI sequence (ESC '[', parameter bytes 0x30..0x3F, one  *)
(* final byte) is consumed whole and dispatched on its final byte: 'm'     *)
(* applies the SGR parameters and emits no segment; 'H' and 'f' emit one   *)
(* CursorMove with the parameters or "1;1"; 'J' emits one ClearScreen when *)
(* the parameters are empty or "2" and nothing otherwise; 'K' emits one    *)
(* ClearLine; 'A'..'D' emit one CursorMove of that direction with the      *)
(* parameter or "1"; any other final byte emits no segment, and none of    *)
(* the sequence's bytes appears in a Text segment.                         *)

\* a complete CSI sequence starts at index i of str
CsiAt(str, i) ==
    /\ str[i] = 27 /\ i + 1 <= Len(str) /\ str[i + 1] = 91
    /\ PastRun(str, i + 2, 48..63) <= Len(str)

\* the index of its final byte and its parameter bytes
CsiFinalIndex(str, i) == PastRun(str, i + 2, 48..63)

CsiParamsAt(str, i) == SubSeq(str, i + 2, CsiFinalIndex(str, i) - 1)

\* the segments the sequence with these parameters and this final byte emits
CsiSegments(ps, final) ==
    CASE final \in {72, 102} ->
            <<[cursorMove |-> IF ps = <<>> THEN <<49, 59, 49>> ELSE ps]>>
      [] final = 74 /\ ps \in {<<>>, <<50>>} -> <<[clear |-> "screen"]>>
      [] final = 75 -> <<[clear |-> "line"]>>
      [] final \in {65, 66, 67, 68} ->
            <<[cursorMove |-> <<final>> \o (IF ps = <<>> THEN <<49>> ELSE ps)]>>
      [] OTHER -> <<>>

C24_CsiDispatch ==
    ansiPc = "done" =>
       \A tr \in {LastAnsi} :
          \A k \in 1..Len(tr) :
             CsiAt(filtered, tr[k].at) =>
                LET B == AnsiBefore(tr, k)
                    A == tr[k].after
                    final == filtered[CsiFinalIndex(filtered, tr[k].at)]
                    ps == CsiParamsAt(filtered, tr[k].at)
                IN  /\ A.i = CsiFinalIndex(filtered, tr[k].at) + 1
                    /\ A.buffer = <<>>
                    /\ AddedBy(tr, k) = PendingText(B) \o CsiSegments(ps, final)
                    /\ A.attrs = IF final = 109 THEN parseSGR(B.attrs, ps)
                                 ELSE B.attrs

\* 'a', ESC [ H, 'b': the cursor is sent to "1;1" and the six bytes leave
\* the texts 'a' and 'b'
C24_Witness ==
    /\ ansiPc = "done" /\ ansiCalls = 1
    /\ aData = <<97, 27, 91, 72, 98>>
    /\ segments = <<[text |-> <<97>>, fg |-> "#aaaaaa", bg |-> "#000000"],
                    [cursorMove |-> <<49, 59, 49>>],
                    [text |-> <<98>>, fg |-> "#aaaaaa", bg |-> "#000000"]>>

\* 'a', ESC [ 1 J, 'b': an erase that is not of the whole screen emits nothing
C24_PartialErase ==
    /\ ansiPc = "done" /\ ansiCalls = 1
    /\ aData = <<97, 27, 91, 49, 74, 98>>
    /\ segments = <<[text |-> <<97>>, fg |-> "#aaaaaa", bg |-> "#000000"],
                    [text |-> <<98>>, fg |-> "#aaaaaa", bg |-> "#000000"]>>

\* 'a', ESC [ ? h, 'b': an unknown final byte after a private parameter
C24_UnknownFinal ==
    /\ ansiPc = "done" /\ ansiCalls = 1
    /\ aData = <<97, 27, 91, 63, 104, 98>>
    /\ segments = <<[text |-> <<97>>, fg |-> "#aaaaaa", bg |-> "#000000"],
                    [text |-> <<98>>, fg |-> "#aaaaaa", bg |-> "#000000"]>>

\* 'a', ESC [ 2 B, 'b'
C24_CursorDown ==
    /\ ansiPc = "done" /\ ansiCalls = 1
    /\ aData = <<97, 27, 91, 50, 66, 98>>
    /\ segments = <<[text |-> <<97>>, fg |-> "#aaaaaa", bg |-> "#000000"],
                    [cursorMove |-> <<66, 50>>],
                    [text |-> <<98>>, fg |-> "#aaaaaa", bg |-> "#000000"]>>


-----------------------------------------------------------------------------
(* C25: in ANSIParser.parse the sequence ESC '-' and its code byte is      *)
(* appended verbatim to the pending text buffer and is not interpreted:    *)
(* the pending text received before it is not flushed, so the text before  *)
(* the sequence, the three bytes and the text after it are delivered       *)
(* contiguously in one Text segment; no Newline, Bell, Clear or CursorMove *)
(* segment is produced from the three bytes and the attribute state is     *)
(* unchanged.                                                              *)

\* ESC '-' and a code byte lie at index i of str
EscDashIn(str, i) ==
    /\ str[i] = 27 /\ i + 2 <= Len(str) /\ str[i + 1] = 45

C25_EscDashPassedThrough ==
    ansiPc = "done" =>
       \A tr \in {LastAnsi} :
          \A k \in 1..Len(tr) :
             EscDashIn(filtered, tr[k].at) =>
                LET B == AnsiBefore(tr, k)
                    A == tr[k].after
                IN  /\ AddedBy(tr, k) = <<>>
                    /\ A.buffer = B.buffer
                                     \o SubSeq(filtered, tr[k].at, tr[k].at + 2)
                    /\ A.attrs = B.attrs
                    /\ A.i = tr[k].at + 3

\* the same without the text before the sequence: the three bytes go to the
\* buffer that the scan of ESC has just emptied, nothing but the pending
\* run is emitted and the attributes stay
C25_EscDashAfterFlush ==
    ansiPc = "done" =>
       \A tr \in {LastAnsi} :
          \A k \in 1..Len(tr) :
             EscDashIn(filtered, tr[k].at) =>
                LET B == AnsiBefore(tr, k)
                    A == tr[k].after
                IN  /\ AddedBy(tr, k) = PendingText(B)
                    /\ A.buffer = SubSeq(filtered, tr[k].at, tr[k].at + 2)
                    /\ A.attrs = B.attrs
                    /\ A.i = tr[k].at + 3

\* 'a', ESC - C, 'b': the text before the sequence is a segment of its own
C25_FlushedBeforeEscDash ==
    /\ ansiPc = "done" /\ ansiCalls = 1
    /\ aData = <<97, 27, 45, 67, 98>>
    /\ segments = <<[text |-> <<97>>, fg |-> "#aaaaaa", bg |-> "#000000"],
                    [text |-> <<27, 45, 67, 98>>, fg |-> "#aaaaaa",
                     bg |-> "#000000"]>>


-----------------------------------------------------------------------------
(* C26: ANSIParser.parse loses no text: every byte of the telnet-stripped  *)
(* input that is in 0x20..0x7E or >= 0x80 and is not part of a complete    *)
(* CSI sequence appears in exactly one Text segment, the concatenation of  *)
(* the Text contents preserves the input order, and text still pending     *)
(* when the input ends is emitted as a final Text segment instead of being *)
(* held back for the next call.                                            *)

\* the bytes that are text
IsTextByte(c) == (c >= 32 /\ c <= 126) \/ c >= 128

\* the text of str from index i on, in input order: complete CSI sequences
\* are left out, ESC '-' and its code byte are text as they stand, and of
\* the other bytes the text bytes
RECURSIVE DeliveredText(_, _)
DeliveredText(str, i) ==
    IF i > Len(str) THEN <<>>
    ELSE IF CsiAt(str, i)
    THEN DeliveredText(str, CsiFinalIndex(str, i) + 1)
    ELSE IF str[i] = 27 /\ i + 1 <= Len(str) /\ str[i + 1] = 45
    THEN SubSeq(str, i, IF i + 2 <= Len(str) THEN i + 2 ELSE Len(str))
            \o DeliveredText(str, i + 3)
    ELSE (IF IsTextByte(str[i]) THEN <<str[i]>> ELSE <<>>)
            \o DeliveredText(str, i + 1)

\* the contents of the Text segments of segs, one after the other
RECURSIVE TextOf(_)
TextOf(segs) ==
    IF segs = <<>> THEN <<>>
    ELSE (IF IsText(Head(segs)) THEN Head(segs).text ELSE <<>>)
            \o TextOf(Tail(segs))

C26_NoTextLost ==
    ansiPc = "done" =>
       /\ TextOf(segments) = DeliveredText(filtered, 1)
       /\ \A k \in 1..Len(segments) :
             IsText(segments[k]) => segments[k].text # <<>>
       /\ \A tr \in {LastAnsi} :
             /\ \A k \in 1..Len(tr) :
                   IsTextByte(filtered[tr[k].at]) =>
                      /\ tr[k].after.buffer
                            = Append(AnsiBefore(tr, k).buffer, filtered[tr[k].at])
                      /\ AddedBy(tr, k) = <<>>
             /\ AnsiLast(tr).buffer # <<>> =>
                   /\ segments # <<>>
                   /\ IsText(segments[Len(segments)])
                   /\ segments[Len(segments)].text = AnsiLast(tr).buffer

\* 'a', ESC [ 1 cut by the end of the chunk: '[' and '1' are not part of a
\* complete sequence and are delivered, as the final Text segment
C26_Witness ==
    /\ ansiPc = "done" /\ ansiCalls = 1
    /\ aData = <<97, 27, 91, 49>>
    /\ segments = <<[text |-> <<97>>, fg |-> "#aaaaaa", bg |-> "#000000"],
                    [text |-> <<91, 49>>, fg |-> "#aaaaaa", bg |-> "#000000"]>>

\* 'a', NUL, 'b': the control byte is dropped and the run goes on
C26_ControlDropped ==
    /\ ansiPc = "done" /\ ansiCalls = 1
    /\ aData = <<97, 0, 98>>
    /\ segments = <<[text |-> <<97, 98>>, fg |-> "#aaaaaa", bg |-> "#000000"]>>


-----------------------------------------------------------------------------
(* C30: an IAC that has fewer than two bytes after it in the chunk gets no *)
(* reply and is stepped over, and nothing about it is remembered: the      *)
(* reply to the next chunk is the same as if that chunk had been the first *)
(* one received, so a negotiation triple split across two chunks is never  *)
(* answered.                                                               *)

\* the end of a chunk is the beginning of a request or a subnegotiation
\* that the chunk does not hold whole
CutAtEnd(tail) ==
    /\ tail # <<>>
    /\ \/ tail[Len(tail)] = 255
       \/ Len(tail) = 2 /\ tail[1] = 255 /\ tail[2] \in {253, 251, 250}

C30_CutRequestForgotten ==
    negPc = "replied" /\ negCalls >= 1 =>
       /\ \A tr \in {NegTrace(negData, 1)} :
             \A k \in 1..Len(tr) :
                negData[tr[k].at] = 255 /\ tr[k].at + 2 > Len(negData) =>
                   /\ tr[k].push = <<>>
                   /\ k < Len(tr) => tr[k + 1].at = tr[k].at + 1
       \* whatever the chunk before ended with, the reply is the one the
       \* chunk gets when read on its own
       /\ \A before \in {negTail} :
             /\ responses = ExpectedReplies(negData)
             /\ CutAtEnd(before) /\ Requests(negData) = {}
                /\ Subnegotiations(negData) = {} => responses = <<>>

\* IAC DO at the end of one chunk, TERMINAL-TYPE alone in the next: the
\* triple IAC DO TERMINAL-TYPE is not answered
C30_Witness ==
    /\ negPc = "replied" /\ negCalls = 2
    /\ negTail = <<255, 253>>
    /\ negData = <<24>>
    /\ responses = <<>>

\* a chunk that ends with IAC DO after a whole request: only the whole
\* request is answered
C30_CutAfterRequest ==
    /\ negPc = "replied" /\ negCalls = 1
    /\ negData = <<255, 253, 1, 255, 253>>
    /\ responses = <<255, 252, 1>>


-----------------------------------------------------------------------------
(* C27: for every binary message the client runs the stages in a fixed     *)
(* order: the vendor decoder parses the raw bytes first and its commands   *)
(* are handled, then the ANSI decoder parses exactly the vendor decoder's  *)
(* clean output and its segments are written, then the textual fallback    *)
(* matcher runs on that same clean output; the ANSI decoder never sees     *)
(* bytes the vendor decoder has not processed, and a message is fully      *)
(* processed before the next one starts.                                   *)
C27_StageOrder ==
    cEvent = "binary" =>
       \A P \in {parse(Session(prevMode, prevStats), pData)} :
       \A clean \in {P.cleanBytes} :
          LET n == Len(P.commands)
          IN  /\ Len(cLog) = n + 4
              /\ cLog[1] = [call |-> "mud2.parse", data |-> pData]
              /\ \A k \in 1..n :
                    cLog[1 + k] = [call |-> "handleMUD2Command",
                                   cmd |-> P.commands[k]]
              /\ cLog[n + 2] = [call |-> "ansiParser.parse", data |-> clean]
              /\ cLog[n + 3] = [call |-> "terminal.writeSegments",
                                segments |-> segments]
              /\ cLog[n + 4] = [call |-> "mud2.parseVisibleStats",
                                text |-> bytesToString(clean)]
              /\ aData = clean
              /\ segments = ansiParse(prevAttrs, clean).segments
              /\ vText = bytesToString(clean)
              /\ cleanData = clean

\* the game marker, ESC [ 1 m, "Sta:12/3": the vendor decoder takes the
\* marker away and its colour command is handled, the ANSI decoder and the
\* fallback matcher get the twelve bytes left
C27_Witness ==
    /\ cEvent = "binary"
    /\ pData = <<157, 156, 255, 27, 91, 49, 109, 83, 116, 97, 58, 49, 50, 47, 51>>
    /\ cLog = <<[call |-> "mud2.parse", data |-> pData],
                [call |-> "handleMUD2Command",
                 cmd |-> [type |-> "color", fg |-> "lightgreen"]],
                [call |-> "ansiParser.parse",
                 data |-> <<27, 91, 49, 109, 83, 116, 97, 58, 49, 50, 47, 51>>],
                [call |-> "terminal.writeSegments",
                 segments |-> <<[text |-> <<83, 116, 97, 58, 49, 50, 47, 51>>,
                                 fg |-> "#ffffff", bg |-> "#000000"]>>],
                [call |-> "mud2.parseVisibleStats",
                 text |-> <<27, 91, 49, 109, 83, 116, 97, 58, 49, 50, 47, 51>>]>>
    /\ mode = "GAME" /\ bold /\ stats.stamina = 12 /\ stats.maxStamina = 3


-----------------------------------------------------------------------------
(* C28: each new connection is a new decoding session: when the client     *)
(* connects again after a disconnect (manual or automatic), ConnectionMode *)
(* is TELNET, GameStats holds its initial values and the display           *)
(* attributes are {foreground 7, background 0, not bold, not reverse}      *)
(* before the first byte of the new connection is decoded; within one      *)
(* connection none of them is reset except by the stream itself.           *)

\* this step makes a new WebSocket and puts it in this.ws
NewAttempt ==
    /\ cur' # 0 /\ socks'[cur'] = "CONNECTING"
    /\ cur' # cur \/ socks[cur] # "CONNECTING"

C28_NewSessionPerConnection ==
    [][ /\ NewAttempt =>
             /\ mode' = "TELNET" /\ stats' = InitStats
             /\ Attrs' = DefaultAttrs
        /\ (mode' # mode \/ stats' # stats \/ Attrs' # Attrs) =>
             (cEvent' = "binary" \/ NewAttempt)
      ]_vars

\* the second half alone: mode, stats and attributes change only when a
\* binary message is decoded
C28_OnlyTheStreamChanges ==
    [][ (mode' # mode \/ stats' # stats \/ Attrs' # Attrs) => cEvent' = "binary"
      ]_vars

\* a new connection is being opened and the decoders still hold what the
\* connection before left: mode GAME, stamina 12 of 3, bold
C28_StateCarriedOver ==
    /\ cur # 0 /\ socks[cur] = "CONNECTING"
    /\ cEvent \in {"connect", "timer"}
    /\ mode = "GAME" /\ stats.stamina = 12 /\ stats # InitStats
    /\ Attrs = [foreground |-> 7, background |-> 0, bold |-> TRUE,
                reverse |-> FALSE]

-----------------------------------------------------------------------------
(* C29: the client automatically reconnects if disconnected: whenever an   *)
(* established connection is lost other than by the user's own Disconnect  *)
(* (the proxy's 'disconnected' status, or the WebSocket closing), a new    *)
(* connection attempt is eventually started after the reconnect delay, and *)
(* at most one reconnect timer is pending at any time.                     *)
C29_AutoReconnect ==
    /\ [](timers <= 1)
    /\ lost ~> ~lost

\* the second half alone
C29_OneTimer == timers <= 1 /\ (reconnectTimer <=> timers = 1)

\* the open socket of this.ws has closed with wasClean true and no
\* 'disconnected' status before it: no timer is pending and no other socket
\* is left, so nothing starts a new attempt
C29_CleanCloseNoTimer ==
    /\ lost /\ cEvent = "close"
    /\ cur # 0 /\ socks[cur] = "CLOSED"
    /\ \A n \in 1..MaxSocks : n # cur => socks[n] = "free"
    /\ ~cConnected /\ ~reconnectTimer /\ timers = 0

\* the timer set by the 'disconnected' status has run while this.ws was
\* still open: connect returned at once and no timer is left
C29_TimerBeforeClose ==
    /\ lost /\ cEvent = "timer"
    /\ cur # 0 /\ socks[cur] = "OPEN"
    /\ ~cConnected /\ ~reconnectTimer /\ timers = 0

-----------------------------------------------------------------------------
(* C31: within one parse call the clean output never holds ESC, '-' and    *)
(* one of 'C', 'R', 'r', 'K', 'T' as three bytes in a row: every ESC -     *)
(* command the ANSI decoder would otherwise take for text has been         *)
(* consumed by the vendor decoder.                                         *)

\* ESC - and a command letter stand at i, i + 1 and i + 2 of the bytes
EscDashCommandAt(bytes, i) ==
    /\ i + 2 <= Len(bytes)
    /\ bytes[i] = 27 /\ bytes[i + 1] = 45
    /\ bytes[i + 2] \in {67, 82, 114, 75, 84}

C31_NoEscDashInClean ==
    protoPc = "parsed" /\ protoCalls >= 1 =>
        \A i \in 1..Len(cleanData) : ~EscDashCommandAt(cleanData, i)

\* what does hold: an ESC - command in the clean output was not one in the
\* message: where the scan stood on an ESC - command it consumed it
C31_OnlyJoinedByRemoval ==
    protoPc = "parsed" /\ protoCalls >= 1 =>
        \A tr \in {ParseTrace(ParseStart(Session(prevMode, prevStats)), pData)} :
            \A k \in 1..Len(tr) :
                EscDashCommandAt(pData, tr[k].at) =>
                    /\ tr[k].after.kind = "esc"
                    /\ tr[k].after.cleanBytes = Before(tr, k).cleanBytes

\* ESC, a vendor sequence and then - C: the vendor sequence is taken out and
\* the clean output reads ESC - C
C31_EscDashLeftInClean ==
    /\ protoPc = "parsed" /\ protoCalls = 1
    /\ pData = <<27, 155, 255, 45, 67>>
    /\ cleanData = <<27, 45, 67>>
    /\ commands = <<[type |-> "promptStart"]>>
    /\ mode = "TELNET"

-----------------------------------------------------------------------------
(* C32: when a vendor start byte is consumed as a command, parse takes     *)
(* every byte from the start byte through its 0xFF terminator out of the   *)
(* clean output, whatever lies between them (printable ASCII, ESC, CR,     *)
(* LF), appends exactly one command to the command list and resumes at the *)
(* byte right after the terminator; the commands are listed in the order   *)
(* of their start bytes in the message.                                    *)

\* the pass k consumed a vendor sequence
VendorPass(tr, k) == tr[k].after.kind = "code"

\* the first 0xFF after the byte at i
FirstTerminator(data, i) ==
    SetMin({j \in (i + 1)..Len(data) : data[j] = 255})

C32_VendorSequenceRemoved ==
    protoPc = "parsed" /\ protoCalls >= 1 =>
        \A tr \in {ParseTrace(ParseStart(Session(prevMode, prevStats)), pData)} :
            /\ \A k \in 1..Len(tr) :
                  VendorPass(tr, k) =>
                     \A B \in {Before(tr, k)} : \A A \in {tr[k].after} :
                        \E t \in {FirstTerminator(pData, tr[k].at)} :
                           \* nothing of the sequence reaches the clean output
                           /\ A.cleanBytes = B.cleanBytes
                           /\ \A l \in 1..Len(tr) :
                                 ~(tr[k].at < tr[l].at /\ tr[l].at <= t)
                           \* one command more, after the ones before
                           /\ Len(A.commands) = Len(B.commands) + 1
                           /\ SubSeq(A.commands, 1, Len(B.commands)) = B.commands
                           \* the scan goes on right after the terminator
                           /\ A.i = t + 1
                           /\ k < Len(tr) => tr[k + 1].at = t + 1
            \* the order of the commands is the order of the start bytes
            /\ \A k, l \in 1..Len(tr) :
                  VendorPass(tr, k) /\ VendorPass(tr, l) /\ tr[k].at < tr[l].at
                     => /\ Len(tr[k].after.commands) < Len(tr[l].after.commands)
                        /\ commands[Len(tr[k].after.commands)]
                              = tr[k].after.commands[Len(tr[k].after.commands)]
                        /\ commands[Len(tr[l].after.commands)]
                              = tr[l].after.commands[Len(tr[l].after.commands)]

\* the game marker, a letter, and an unknown code with a CR inside it: two
\* commands in that order, and only the letter is left
C32_Witness ==
    /\ protoPc = "parsed" /\ protoCalls = 1
    /\ pData = <<157, 156, 255, 66, 200, 13, 255>>
    /\ cleanData = <<66>>
    /\ commands = <<[type |-> "color", fg |-> "lightgreen"],
                    [type |-> "unknown", code |-> 200]>>

\* a vendor sequence with CR, LF and a letter inside: all of it is removed
C32_NewlinesInside ==
    /\ protoPc = "parsed" /\ protoCalls = 1
    /\ pData = <<65, 200, 13, 10, 97, 255, 66>>
    /\ cleanData = <<65, 66>>
    /\ commands = <<[type |-> "unknown", code |-> 200]>>

-----------------------------------------------------------------------------
(* C33: the bytes of a stats record, its 4-byte header and every byte      *)
(* after it up to but not including the first CR or LF, never reach the    *)
(* clean output and add no command, whether the record is accepted or      *)
(* rejected; the CR or LF that ends the record is not consumed and is      *)
(* emitted into the clean output; a record with no CR or LF runs to the    *)
(* end of the message, and the next parse call does not go on with it.     *)
C33_RecordFrame ==
    protoPc = "parsed" /\ protoCalls >= 1 =>
        \A tr \in {ParseTrace(ParseStart(Session(prevMode, prevStats)), pData)} :
            /\ \A k \in 1..Len(tr) :
                  HeaderAt(pData, tr[k].at) =>
                     \A B \in {Before(tr, k)} : \A A \in {tr[k].after} :
                        \E stop \in {RecordStop(pData, tr[k].at)} :
                           /\ A.cleanBytes = B.cleanBytes
                           /\ A.commands = B.commands
                           /\ \A l \in 1..Len(tr) :
                                 ~(tr[k].at < tr[l].at /\ tr[l].at < stop)
                           /\ stop <= Len(pData) =>
                                 /\ k < Len(tr) /\ tr[k + 1].at = stop
                                 /\ tr[k + 1].after.cleanBytes
                                       = Append(B.cleanBytes, pData[stop])
                                 /\ tr[k + 1].after.commands = B.commands
                           /\ stop > Len(pData) => k = Len(tr)
            \* after a message that ended inside a record the scan starts
            \* outside one
            /\ recOpen /\ pData # <<>> =>
                  /\ tr[1].after.kind = "fes" <=> HeaderAt(pData, 1)
                  /\ pData[1] < 155 /\ pData[1] # 27
                        => tr[1].after.cleanBytes = <<pData[1]>>
                  /\ (\A i \in 1..Len(pData) : ~HeaderAt(pData, i))
                        => stats = prevStats /\ notified = <<>>

\* a rejected record with a vendor byte in it, ended by CR LF: CR, LF and
\* the letter after them are the clean output
C33_Witness ==
    /\ protoPc = "parsed" /\ protoCalls = 1
    /\ pData = <<65, 167, 163, 156, 255, 200, 49, 13, 10, 66>>
    /\ cleanData = <<65, 13, 10, 66>>
    /\ commands = <<>>
    /\ stats = InitStats

\* eight numbers and no CR or LF in one message, "9" LF "B" in the next:
\* the second message is plain text and the stats stay as they were
C33_NotCarriedOver ==
    /\ protoPc = "parsed" /\ protoCalls = 2 /\ recOpen
    /\ pData = <<57, 10, 66>>
    /\ cleanData = <<57, 10, 66>>
    /\ stats = InitStats /\ mode = "TELNET"

\* an accepted record that runs to the end of the message
C33_AcceptedToTheEnd ==
    /\ protoPc = "parsed" /\ protoCalls = 1
    /\ pData = <<167, 163, 156, 255, 49, 32, 50, 32, 51, 32, 52, 32, 53, 32,
                 54, 32, 55, 32, 56, 32, 57>>
    /\ cleanData = <<>> /\ commands = <<>>
    /\ stats.score = 9 /\ mode = "GAME"

-----------------------------------------------------------------------------
(* C34: when an IAC SB in a chunk has no IAC SE after it in the same       *)
(* chunk, the negotiator skips the whole rest of the chunk: no IAC DO or   *)
(* IAC WILL after it in that chunk is answered, and nothing is carried     *)
(* into the next chunk; an SB TERMINAL-TYPE SEND still gets its            *)
(* terminal-type reply although no IAC SE was seen.                        *)

\* the subnegotiations of the chunk that no IAC SE ends
OpenSubs(data) == {s \in Subnegotiations(data) : MatchingSE(data, s) = {}}

C34_OpenSubnegotiation ==
    negPc = "replied" /\ negCalls >= 1 =>
       /\ \A s \in OpenSubs(negData) :
             \* the scan ends with the subnegotiation
             /\ \A tr \in {NegTrace(negData, 1)} :
                   \A k \in 1..Len(tr) : tr[k].at <= s
             \* the replies are those to the bytes before it and its own
             /\ responses = ExpectedReplies(SubSeq(negData, 1, s - 1))
                               \o (IF negData[s + 2] = 24 /\ s + 3 <= Len(negData)
                                      /\ negData[s + 3] = 1
                                   THEN <<255, 250, 24, 0, 97, 110, 115, 105, 255, 240>>
                                   ELSE <<>>)
       \* the chunk after one that ended inside a subnegotiation is read
       \* from its first byte as any other chunk
       /\ negOpen =>
             /\ responses = ExpectedReplies(negData)
             /\ \A p \in 1..Len(negData) :
                   IsRequestAt(negData, p)
                   /\ (\A q \in 1..(p - 1) : negData[q] # 255)
                      => SubSeq(responses, 1, Len(FixedTable(negData[p + 1], negData[p + 2])))
                            = FixedTable(negData[p + 1], negData[p + 2])

\* SB TERMINAL-TYPE SEND with no IAC SE and IAC DO ECHO after it: the terminal
\* type is sent and the request is not answered
C34_Witness ==
    /\ negPc = "replied" /\ negCalls = 1
    /\ negData = <<255, 250, 24, 1, 255, 253, 1>>
    /\ responses = <<255, 250, 24, 0, 97, 110, 115, 105, 255, 240>>

\* the chunk after it: a data byte, IAC SE, IAC DO ECHO.  The request is
\* answered, and it would be just the same had the chunk come first
C34_NextChunkReadAlone ==
    /\ negPc = "replied" /\ negCalls = 2 /\ negOpen
    /\ negData = <<65, 255, 240, 255, 253, 1>>
    /\ responses = <<255, 252, 1>>

\* an open subnegotiation of another option and then IAC WILL ECHO: no reply
C34_RequestAfterUnanswered ==
    /\ negPc = "replied" /\ negCalls = 1
    /\ negData = <<255, 250, 65, 255, 251, 1>>
    /\ responses = <<>>

-----------------------------------------------------------------------------
(* C35: no MUD connection outlives its WebSocket: whenever the browser     *)
(* WebSocket of a session closes or has an error, before or after the MUD  *)
(* connection is established, the MUD socket of the session is eventually  *)
(* ended.                                                                  *)

\* mudSocket.end() was called, or the MUD socket has closed
MudEnded ==
    \/ mudState = "closed"
    \/ \E n \in 1..Len(mudLog) : mudLog[n].op = "mud.end"

C35_MudEndedWithWs == (wsReady # "OPEN") ~> MudEnded

\* what does hold: a WebSocket that closes or errs while the connected flag
\* is set ends the MUD socket in the same handler
C35_EndedWhenConnected ==
    [][(wsReady = "OPEN" /\ wsReady' # "OPEN" /\ connected) => MudEnded']_vars

\* the WebSocket closed while the MUD socket was connecting; the MUD socket
\* has connected since, and nothing has ended it
C35_MudOutlivesWs ==
    /\ wsReady = "CLOSED"
    /\ mudState = "established" /\ connected
    /\ ~MudEnded
    /\ mudLog = <<Call("ws.send", 0, <<"status", "connected">>)>>

-----------------------------------------------------------------------------
(* C37: the proxy forwards a WebSocket message to the MUD socket only      *)
(* while the session's MUD connection is established, after its 'connect'  *)
(* event and before its 'close' event; a message that arrives at any other *)
(* time is dropped: it is not queued and it is not written later.          *)

\* the writes to the MUD socket that forward browser messages
ForwardingWrites ==
    SelectSeq(mudLog, LAMBDA c : c.op = "mud.write" /\ c.chunk = 0)

C37_ForwardOnlyWhenEstablished ==
    ForwardingWrites =
        Flatten([n \in 1..Len(wsIn) |->
            IF wsIn[n].mud = "established" /\ wsIn[n].message.kind # "other"
            THEN <<[op |-> "mud.write", chunk |-> 0,
                    bytes |-> wsIn[n].message.bytes]>>
            ELSE <<>>])

\* a binary message arrived while the MUD socket was connecting; the socket
\* has connected and delivered a chunk since, and the message was not written
C37_Witness ==
    /\ Len(wsIn) = 1 /\ wsIn[1].mud = "connecting"
    /\ wsIn[1].message.kind = "buffer"
    /\ mudState = "established" /\ wsReady = "OPEN"
    /\ mudLog = <<Call("ws.send", 0, <<"status", "connected">>),
                  Call("ws.send", 1, <<72, 105>>)>>

\* a {type:'data'} command that arrives on an established connection is
\* written
C37_Forwarded ==
    /\ Len(wsIn) = 1 /\ wsIn[1].mud = "established"
    /\ mudLog = <<Call("ws.send", 0, <<"status", "connected">>),
                  Call("mud.write", 0, <<110, 13, 10>>)>>

\* a message that arrives after the MUD socket closed, before the WebSocket
\* has closed, is dropped
C37_DroppedAfterClose ==
    /\ Len(wsIn) = 1 /\ wsIn[1].mud = "closed"
    /\ wsIn[1].message.kind = "data"
    /\ wsReady = "CLOSING"
    /\ ForwardingWrites = <<>>

-----------------------------------------------------------------------------
(* C36: at any time the client has at most one WebSocket that is           *)
(* connecting or open: connect() never makes a second socket while an      *)
(* earlier one is still live, whether the user presses Enter or Connect    *)
(* twice or the reconnect timer fires while a manual connect is in         *)
(* progress.                                                               *)

\* the sockets that are connecting or open
LiveSockets == {s \in 1..MaxSocks : socks[s] \in {"CONNECTING", "OPEN"}}

C36_OneLiveSocket == Cardinality(LiveSockets) <= 1

\* what does hold: while this.ws is open no step makes another socket
C36_NoneWhileOpen ==
    [][(cur # 0 /\ socks[cur] = "OPEN")
          => Cardinality(LiveSockets') <= Cardinality(LiveSockets)]_vars

\* Enter pressed twice before the first socket has opened: two sockets are
\* connecting, and the client holds the second
C36_TwoConnecting ==
    /\ socks = <<"CONNECTING", "CONNECTING">> /\ cur = 2
    /\ cEvent = "connect" /\ ~cConnected /\ timers = 0

\* the reconnect timer ran while the socket of a manual connect was
\* connecting: a second socket
C36_TimerDuringConnect ==
    /\ Cardinality(LiveSockets) = 2
    /\ cEvent = "timer" /\ timers = 0

=============================================================================
